---- MODULE Spec2Model ----
(***************************************************************************)
(* Partition processor of the durable-execution worker: the log-replay     *)
(* loop of crates/worker/src/partition/mod.rs (PartitionProcessor::run and *)
(* apply_record), its storage transaction, its leadership state and the    *)
(* actuators it feeds.                                                     *)
(*                                                                         *)
(* The handler of one log record is split at its await points: the apply   *)
(* of the record into the open transaction, the commit, and the call that  *)
(* follows the commit (handle_actions, or become_leader/become_follower).  *)
(* A crash may fall between any two of them.                               *)
(*                                                                         *)
(* Second part: one invocation task of invoker/src/invocation_task.rs      *)
(* (InvocationTask::run), from the journal replay to its terminal output,  *)
(* under the specification TaskSpec.                                       *)
(***************************************************************************)
EXTENDS Integers, Sequences, FiniteSets, TLC

\* ------------------------------------------------------------------------
\* Bounds of the model
\* ------------------------------------------------------------------------
MaxLog == 3
MaxEpoch == 2
MaxSn == 2
MaxRestarts == 1
MaxJournal == 2
MaxFrames == 2
MaxBuffers == 2
MaxCompletions == 2
BodyCapacity == 1

\* ------------------------------------------------------------------------
\* Values
\* ------------------------------------------------------------------------
\* Option<T>: None is the empty sequence, Some(x) the one-element sequence.
None == <<>>
Some(x) == <<x>>

\* Lsn::INVALID, the pre-genesis sentinel; Lsn::next is the successor.
LsnINVALID == 0
LsnNext(lsn) == lsn + 1

\* Node ids: metadata().my_node_id() and one other node of the cluster.
my_node_id == "n1"
Nodes == {"n1", "n2"}

\* The inclusive partition key range of this processor and one key outside.
partition_key_range == 1 .. 2

\* ProducerId::self_producer() and one external producer.
SelfProducer == "self"
Producers == {"self", "p1"}

\* DedupSequenceNumber: Esn(leader_epoch, sequence_number) | Sn(sequence_number)
Esn(e, s) == [kind |-> "Esn", leader_epoch |-> e, sequence_number |-> s]
Sn(s) == [kind |-> "Sn", leader_epoch |-> 0, sequence_number |-> s]

\* EpochSequenceNumber::new(leader_epoch): the sequence number starts at 0.
EpochSequenceNumberNew(e) == [leader_epoch |-> e, sequence_number |-> 0]

\* Commands of the envelope: AnnounceLeader and two state-machine commands.
AnnounceLeader(e, n) == [name |-> "AnnounceLeader", leader_epoch |-> e, node_id |-> n]
SMCommand(c) == [name |-> c, leader_epoch |-> 0, node_id |-> "-"]

DedupInformation(p, dsn) == [producer_id |-> p, sequence_number |-> dsn]

Processor(k, dedup) == [kind |-> "Processor", partition_key |-> k, dedup |-> dedup]

Envelope(dest, cmd) == [header |-> [dest |-> dest], command |-> cmd]

\* The envelopes producers write to the log:
\*  - leader announcements of the control plane, without dedup information,
\*    for this node under every epoch and for the other node;
\*  - a state-machine command without dedup information;
\*  - commands of the external producer p1 under plain sequence numbers, and a
\*    leader announcement it sends under sequence number 1;
\*  - commands the partition's own leader of an epoch proposes under an ESN;
\*  - one command of p1 under an ESN (a producer mixing the two kinds);
\*  - a leader announcement to a partition key outside the range of this
\*    partition, with dedup information of p1 under an ESN.
Envelopes ==
       { Envelope(Processor(1, None), AnnounceLeader(e, my_node_id)) : e \in 1 .. MaxEpoch }
  \cup { Envelope(Processor(1, None), AnnounceLeader(MaxEpoch, "n2")) }
  \cup { Envelope(Processor(1, None), SMCommand("Invoke")) }
  \cup { Envelope(Processor(2, Some(DedupInformation("p1", Sn(s)))), SMCommand("Invoke")) : s \in 1 .. MaxSn }
  \cup { Envelope(Processor(2, Some(DedupInformation("p1", Sn(1)))), AnnounceLeader(MaxEpoch, my_node_id)) }
  \cup { Envelope(Processor(1, Some(DedupInformation(SelfProducer, Esn(e, 1)))), SMCommand("Completion")) : e \in 1 .. MaxEpoch }
  \cup { Envelope(Processor(1, Some(DedupInformation("p1", Esn(1, 0)))), SMCommand("Invoke")) }
  \cup { Envelope(Processor(3, Some(DedupInformation("p1", Esn(1, 0)))),
                   AnnounceLeader(MaxEpoch, my_node_id)) }

\* ------------------------------------------------------------------------
\* State
\* ------------------------------------------------------------------------
VARIABLES
  log,                \* the replicated log of this partition; log[l] is the record at LSN l
  store,              \* the committed (durable) content of the partition store
  transaction,        \* Option: the open transaction's view (its writes over store)
  pc,                 \* position of run(): "built", "select", "applied", "transition",
                      \* "committed", and "stopped" when the processor does not run
  exit,               \* how the previous run ended: "none", "crash", "panic", "cancel",
                      \* "error"
  reader,             \* LSN the log reader delivers next
  record_lsn,         \* LSN of the record in the handler (0 when there is none)
  leadership_change,  \* Option<AnnounceLeader>: what apply_record returned
  action_collector,   \* ActionCollector scratch buffer
  leadership_state,   \* LeadershipState: Follower | Leader(epoch)
  status,             \* PartitionProcessorStatus (in memory)
  status_watch,       \* last snapshot published on the watch channel
  restarts,           \* number of restarts so far
  actuator,           \* batches the actuators received through handle_actions
  commits,            \* history: one entry per committed transaction
  sm_execs,           \* history: number of state-machine executions per LSN
  sm_ran              \* whether the state machine ran in the open transaction

vars == << log, store, transaction, pc, exit, reader, record_lsn, leadership_change,
           action_collector, leadership_state, status, status_watch, restarts,
           actuator, commits, sm_execs, sm_ran >>

\* State of one invocation task (invoker/src/invocation_task.rs).
VARIABLES
  task_pc,             \* position of run(): "none" (no task), "new", "replay",
                       \* "bidi", "response", "done"
  journal_size,        \* journal_metadata.journal_size
  journal_stream,      \* number of entries the journal stream still yields
  next_journal_index,  \* InvocationTask.next_journal_index
  invoker_rx,          \* Option: the completions receiver, "open" or "closed"
  invoker_tx,          \* outputs sent to the invoker, in order
  http_stream_tx,      \* request body sender: the messages it accepted, in order,
                       \* and whether the endpoint closed the channel
  http_stream_rx_res,  \* whether a valid response head has been received
  completions,         \* number of completions received from the invoker
  body_reads,          \* number of buffers read from the response body
  inbound,             \* history: frames of all buffers read from the body
  last_event,          \* history: the input the last step of the task consumed
  replay_end_index     \* history: Option, next_journal_index when replay ended

\* The replay loop of the task with its awaits apart
\* (wait_response_and_replay_end_loop), the spawned request and the endpoint.
VARIABLES
  replay_pc,           \* "none", "loop" (at the select), "writing" (in send_data
                       \* of an entry), "ended"
  req_fut,             \* the spawned request: "none", "spawned", "ready" (the
                       \* response is there), "taken" (the loop has it)
  endpoint_read        \* number of messages of the request body the endpoint
                       \* has consumed

replay_vars == << replay_pc, req_fut, endpoint_read >>

\* One call of get_output of the ingress (worker/src/ingress_integration.rs).
VARIABLES
  query,               \* InvocationQuery of the call
  partition_storage,   \* the tables of the partition store the call reads
  output               \* Option: what get_output returned

ingress_vars == << query, partition_storage, output >>

task_vars == << task_pc, journal_size, journal_stream,
                next_journal_index, invoker_rx, invoker_tx, http_stream_tx,
                http_stream_rx_res, completions, body_reads, inbound, last_event,
                replay_end_index, replay_vars >>

\* ------------------------------------------------------------------------
\* Partition storage and its transaction
\* ------------------------------------------------------------------------
\* An empty partition store: no applied LSN, no dedup numbers, the state
\* machine's tables empty.
EmptyStore ==
  [ applied_lsn |-> None,
    dedup |-> [p \in Producers |-> None],
    inbox_seq_number |-> 0,
    invocation_status |-> "Free" ]

\* partition_storage.load_applied_lsn().unwrap_or(Lsn::INVALID)
load_applied_lsn(st) == IF st.applied_lsn = None THEN LsnINVALID ELSE st.applied_lsn[1]

create_transaction(st) == st

store_applied_lsn(tx, lsn) == [tx EXCEPT !.applied_lsn = Some(lsn)]

store_dedup_sequence_number(tx, producer, dsn) == [tx EXCEPT !.dedup[producer] = Some(dsn)]

get_dedup_sequence_number(tx, producer) == tx.dedup[producer]

\* transaction.commit(): the transaction's view becomes the durable store.
commit(st, tx) == tx

\* ------------------------------------------------------------------------
\* Log
\* ------------------------------------------------------------------------
\* find_tail(..).offset(): the first LSN that is not written yet.
find_tail(l) == Len(l) + 1

\* Variant: the reader is reopened at the last applied LSN itself.
create_reader_at_applied(last_applied_lsn) ==
  IF last_applied_lsn = LsnINVALID THEN LsnNext(last_applied_lsn) ELSE last_applied_lsn

\* create_reader(log_id, last_applied_lsn.next(), Lsn::MAX)
create_reader(last_applied_lsn) == LsnNext(last_applied_lsn)

\* ------------------------------------------------------------------------
\* State machine and leadership state
\* ------------------------------------------------------------------------
\* Actions the state machine emits for a command, in emission order.
SMActions(cmd, tx) ==
  IF cmd.name = "Invoke"
  THEN IF tx.invocation_status = "Free"
       THEN << "InvokeService", "RegisterTimer" >>
       ELSE << "NewOutboxMessage" >>
  ELSE IF tx.invocation_status = "Invoked"
       THEN << "IngressResponse", "DeleteTimer" >>
       ELSE << "AckStoredEntry" >>

\* state_machine.apply(command, effects, transaction, action_collector, is_leader):
\* writes through the transaction, records actions only when is_leader.
StateMachineApply(cmd, tx, collector, is_leader) ==
  [ tx |-> [tx EXCEPT !.inbox_seq_number = @ + 1,
                      !.invocation_status =
                          IF cmd.name = "Invoke"
                          THEN (IF @ = "Free" THEN "Invoked" ELSE @)
                          ELSE (IF @ = "Invoked" THEN "Completed" ELSE @)],
    collector |-> IF is_leader THEN collector \o SMActions(cmd, tx) ELSE collector ]

Follower == [is_leader |-> FALSE, leader_epoch |-> 0]
Leader(e) == [is_leader |-> TRUE, leader_epoch |-> e]

\* leadership_state.handle_actions(actions): the leader hands the batch to its
\* actuators, the follower owns no actuator and ignores it.
handle_actions(ls, received, batch) ==
  IF ls.is_leader THEN Append(received, batch) ELSE received

\* leadership_state.become_leader(new_esn, ..) / become_follower()
become_leader(new_esn) == Leader(new_esn.leader_epoch)
become_follower == Follower

\* ------------------------------------------------------------------------
\* Status
\* ------------------------------------------------------------------------
DefaultStatus ==
  [ replay_status |-> "Starting",
    last_applied_log_lsn |-> None,
    target_tail_lsn |-> None,
    effective_mode |-> None,
    last_observed_leader_epoch |-> None,
    last_observed_leader_node |-> None,
    num_skipped_records |-> 0 ]

\* Variant: the partition key range is not looked at.
is_targeted_to_me_any_key(header) ==
  IF header.dest.kind = "Processor" THEN Some(header.dest.dedup) ELSE None

\* ------------------------------------------------------------------------
\* apply_record and its helpers
\* ------------------------------------------------------------------------
is_targeted_to_me(header) ==
  IF header.dest.kind = "Processor" /\ header.dest.partition_key \in partition_key_range
  THEN Some(header.dest.dedup)
  ELSE None

\* Variant: the epoch is ignored, only the sequence numbers are compared.
EsnGe_sequence_only(a, b) == a.sequence_number >= b.sequence_number

\* PartialOrd of EpochSequenceNumber: lexicographic on (leader_epoch, sequence_number)
EsnGe(a, b) ==
  \/ a.leader_epoch > b.leader_epoch
  \/ a.leader_epoch = b.leader_epoch /\ a.sequence_number >= b.sequence_number

\* Variant: no number of the stored kind counts as seen before.
is_outdated_or_duplicate_never(dedup_information, tx) ==
  LET last_dsn == get_dedup_sequence_number(tx, dedup_information.producer_id)
      dsn == dedup_information.sequence_number
  IN IF last_dsn = None THEN "false"
     ELSE IF last_dsn[1].kind = dsn.kind THEN "false"
     ELSE "panic"

\* Variant: numbers of different kinds are compared by their sequence number.
is_outdated_or_duplicate_cross_kind(dedup_information, tx) ==
  LET last_dsn == get_dedup_sequence_number(tx, dedup_information.producer_id)
      dsn == dedup_information.sequence_number
  IN IF last_dsn = None THEN "false"
     ELSE IF last_dsn[1].kind = "Esn" /\ dsn.kind = "Esn"
          THEN (IF EsnGe(last_dsn[1], dsn) THEN "true" ELSE "false")
     ELSE IF last_dsn[1].sequence_number >= dsn.sequence_number THEN "true" ELSE "false"

\* Variant: only a strictly smaller number counts as seen before.
is_outdated_or_duplicate_strict(dedup_information, tx) ==
  LET last_dsn == tx.dedup[dedup_information.producer_id]
      dsn == dedup_information.sequence_number
  IN IF last_dsn = None THEN "false"
     ELSE IF last_dsn[1].kind = "Esn" /\ dsn.kind = "Esn"
          THEN (IF EsnGe(last_dsn[1], dsn) /\ last_dsn[1] # dsn THEN "true" ELSE "false")
     ELSE IF last_dsn[1].kind = "Sn" /\ dsn.kind = "Sn"
          THEN (IF last_dsn[1].sequence_number > dsn.sequence_number THEN "true" ELSE "false")
     ELSE "panic"

\* "true", "false", or "panic" when the kinds of the two numbers differ.
is_outdated_or_duplicate(dedup_information, tx) ==
  LET last_dsn == get_dedup_sequence_number(tx, dedup_information.producer_id)
      dsn == dedup_information.sequence_number
  IN IF last_dsn = None THEN "false"
     ELSE IF last_dsn[1].kind = "Esn" /\ dsn.kind = "Esn"
          THEN (IF EsnGe(last_dsn[1], dsn) THEN "true" ELSE "false")
     ELSE IF last_dsn[1].kind = "Sn" /\ dsn.kind = "Sn"
          THEN (IF last_dsn[1].sequence_number >= dsn.sequence_number THEN "true" ELSE "false")
     ELSE "panic"

\* The result of apply_record: how it returned, the leadership change it
\* returned, and the transaction, status and action collector it leaves.
ApplyResult(result, change, tx, st, collector, ran) ==
  [ result |-> result, change |-> change, tx |-> tx, status |-> st,
    collector |-> collector, sm_ran |-> ran ]

\* Variant: the state machine is always told it runs on the leader.
IsLeaderArgAlways(ls) == TRUE

\* the is_leader argument handed to the state machine
IsLeaderArg(ls) == ls.is_leader

\* Variant: an announcement of the known epoch is a leadership change too.
announces_known_epoch(last_known_esn, announce_leader) ==
  \/ last_known_esn = None
  \/ last_known_esn[1].leader_epoch <= announce_leader.leader_epoch

\* apply_record: the announcement is a leadership change when no self ESN is
\* known or its epoch is below the announced one.
announces_new_epoch(last_known_esn, announce_leader) ==
  \/ last_known_esn = None
  \/ last_known_esn[1].leader_epoch < announce_leader.leader_epoch

\* Variant: the status keeps Lsn::INVALID as the applied LSN.
update_replay_status_invalid_lsn(st0, lsn) ==
  [st0 EXCEPT
     !.last_applied_log_lsn = Some(LsnINVALID),
     !.replay_status =
         IF @ = "CatchingUp" /\ st0.target_tail_lsn # None
                             /\ lsn >= st0.target_tail_lsn[1]
         THEN "Active" ELSE @]

\* apply_record, "Update replay status": the status takes the LSN of the
\* record, and a catch-up that reached its target tail becomes Active.
update_replay_status(st0, lsn) ==
  [st0 EXCEPT
     !.last_applied_log_lsn = Some(lsn),
     !.replay_status =
         IF @ = "CatchingUp" /\ st0.target_tail_lsn # None
                             /\ lsn >= st0.target_tail_lsn[1]
         THEN "Active" ELSE @]

apply_record(lsn, envelope, tx0, st0, collector, ls) ==
  LET tx1 == store_applied_lsn(tx0, lsn)
      st1 == update_replay_status(st0, lsn)
      targeted == is_targeted_to_me(envelope.header)
  IN
  IF targeted = None
  THEN ApplyResult("ok", None, tx1,
                   [st1 EXCEPT !.num_skipped_records = @ + 1], collector, FALSE)
  ELSE
    LET dedup == targeted[1]
        dup == IF dedup = None THEN "false" ELSE is_outdated_or_duplicate(dedup[1], tx1)
        tx2 == IF dedup = None THEN tx1
               ELSE store_dedup_sequence_number(tx1, dedup[1].producer_id,
                                                dedup[1].sequence_number)
    IN
    IF dup = "panic" THEN ApplyResult("panic", None, tx1, st1, collector, FALSE)
    ELSE IF dup = "true" THEN ApplyResult("ok", None, tx1, st1, collector, FALSE)
    ELSE IF envelope.command.name = "AnnounceLeader"
    THEN
      LET last_known == get_dedup_sequence_number(tx2, SelfProducer)
      IN IF last_known # None /\ last_known[1].kind # "Esn"
         THEN ApplyResult("panic", None, tx2, st1, collector, FALSE)
         ELSE IF announces_new_epoch(last_known, envelope.command)
         THEN ApplyResult("ok", Some(envelope.command), tx2, st1, collector, FALSE)
         ELSE ApplyResult("ok", None, tx2, st1, collector, FALSE)
    ELSE
      LET r == StateMachineApply(envelope.command, tx2, collector, IsLeaderArg(ls))
      IN ApplyResult("ok", None, r.tx, st1, r.collector, TRUE)

\* ------------------------------------------------------------------------
\* Initial state: the processor is built (follower, default status) over an
\* empty partition store and an empty log.
\* ------------------------------------------------------------------------
ProcessorBuilt ==
  /\ log = << >>
  /\ store = EmptyStore
  /\ transaction = None
  /\ pc = "built"
  /\ exit = "none"
  /\ reader = 0
  /\ record_lsn = 0
  /\ leadership_change = None
  /\ action_collector = << >>
  /\ leadership_state = Follower
  /\ status = DefaultStatus
  /\ status_watch = DefaultStatus
  /\ restarts = 0
  /\ actuator = << >>
  /\ commits = << >>
  /\ sm_execs = [l \in 1 .. MaxLog |-> 0]
  /\ sm_ran = FALSE

\* Event(kind, phase, err, parts): the input a step of an invocation task
\* consumed; err is an Option<hyper::Error>, parts an Option<Parts>.
Event(kind, phase, err, parts) ==
  [kind |-> kind, phase |-> phase, err |-> err, parts |-> parts]

\* get_output is not called.
NoQuery ==
  /\ query = None
  /\ partition_storage = None
  /\ output = None

\* The replay loop is not looked at with its awaits apart.
NoReplay ==
  /\ replay_pc = "none"
  /\ req_fut = "none"
  /\ endpoint_read = 0

\* No invocation task has been spawned.
NoTask ==
  /\ task_pc = "none"
  /\ journal_size = 0
  /\ journal_stream = 0
  /\ next_journal_index = 0
  /\ invoker_rx = None
  /\ invoker_tx = << >>
  /\ http_stream_tx = [sent |-> << >>, closed |-> FALSE]
  /\ http_stream_rx_res = FALSE
  /\ completions = 0
  /\ body_reads = 0
  /\ inbound = << >>
  /\ last_event = Event("none", "none", None, None)
  /\ replay_end_index = None
  /\ NoReplay

Init == ProcessorBuilt /\ NoTask /\ NoQuery

\* ------------------------------------------------------------------------
\* Steps of run()
\* ------------------------------------------------------------------------
\* In-memory state of a processor that is not running: everything a crash,
\* a panic or the end of run() drops.
Dropped ==
  /\ transaction' = None
  /\ reader' = 0
  /\ record_lsn' = 0
  /\ leadership_change' = None
  /\ action_collector' = << >>
  /\ leadership_state' = Follower
  /\ status' = DefaultStatus
  /\ status_watch' = DefaultStatus
  /\ sm_ran' = FALSE

\* A producer appends an envelope to the log.  The processor looks at the log
\* only in find_tail (before the loop) and through its reader (at a selection
\* point, one record at a time), so an append is placed right before the
\* first of these that can see it.
AppendRecord ==
  /\ UNCHANGED << task_vars, ingress_vars >>
  /\ pc = "built" \/ (pc = "select" /\ reader > Len(log))
  /\ Len(log) < MaxLog
  /\ \E e \in Envelopes : log' = Append(log, e)
  /\ UNCHANGED << store, transaction, pc, exit, reader, record_lsn, leadership_change,
                  action_collector, leadership_state, status, status_watch, restarts,
                  actuator, commits, sm_execs, sm_ran >>

\* Variant: Active when the tail found equals the applied LSN itself.
replay_status_at_start_tail_is_applied(st, last_applied_lsn, current_tail) ==
  [st EXCEPT
     !.last_applied_log_lsn = Some(last_applied_lsn),
     !.replay_status =
         IF current_tail = last_applied_lsn THEN "Active" ELSE "CatchingUp",
     !.target_tail_lsn =
         IF current_tail = last_applied_lsn THEN @ ELSE Some(current_tail)]

\* run(), the status before the loop: Active when the tail found is the LSN
\* after the applied one, otherwise CatchingUp with the tail as the target.
replay_status_at_start(st, last_applied_lsn, current_tail) ==
  [st EXCEPT
     !.last_applied_log_lsn = Some(last_applied_lsn),
     !.replay_status =
         IF current_tail = LsnNext(last_applied_lsn) THEN "Active" ELSE "CatchingUp",
     !.target_tail_lsn =
         IF current_tail = LsnNext(last_applied_lsn) THEN @ ELSE Some(current_tail)]

\* Variant: the reader is opened at the tail found, not after the applied LSN.
StartFromTail ==
  /\ UNCHANGED << task_vars, ingress_vars >>
  /\ pc = "built"
  /\ LET last_applied_lsn == load_applied_lsn(store)
         current_tail == find_tail(log)
     IN /\ status' = replay_status_at_start(status, last_applied_lsn, current_tail)
        /\ reader' = current_tail
  /\ action_collector' = << >>
  /\ pc' = "select"
  /\ UNCHANGED << log, store, transaction, exit, record_lsn, leadership_change,
                  leadership_state, status_watch, restarts, actuator, commits,
                  sm_execs, sm_ran >>

\* run(), up to the loop: load the applied LSN, find the tail, set the replay
\* status and open the reader after the last applied LSN.
Start ==
  /\ UNCHANGED << task_vars, ingress_vars >>
  /\ pc = "built"
  /\ LET last_applied_lsn == load_applied_lsn(store)
         current_tail == find_tail(log)
     IN /\ status' = replay_status_at_start(status, last_applied_lsn, current_tail)
        /\ reader' = create_reader(last_applied_lsn)
  /\ action_collector' = << >>
  /\ pc' = "select"
  /\ UNCHANGED << log, store, transaction, exit, record_lsn, leadership_change,
                  leadership_state, status_watch, restarts, actuator, commits,
                  sm_execs, sm_ran >>

\* action_collector.clear()
ClearCollector(collector) == << >>

\* Variant: an error of apply_record is recorded but run() goes on to the commit.
ApplyRecordIgnoringError ==
  /\ UNCHANGED << task_vars, ingress_vars >>
  /\ pc = "select"
  /\ reader <= Len(log)
  /\ \E failed \in BOOLEAN :
     LET r == apply_record(reader, log[reader], create_transaction(store), status,
                           ClearCollector(action_collector), leadership_state)
     IN IF r.result = "panic"
        THEN /\ pc' = "stopped"
             /\ exit' = "panic"
             /\ Dropped
             /\ UNCHANGED sm_execs
        ELSE IF failed
        THEN /\ pc' = "applied"
             /\ exit' = "error"
             /\ transaction' = Some(r.tx)
             /\ status' = r.status
             /\ action_collector' = r.collector
             /\ leadership_change' = r.change
             /\ record_lsn' = reader
             /\ reader' = LsnNext(reader)
             /\ sm_ran' = r.sm_ran
             /\ UNCHANGED << sm_execs, leadership_state, status_watch >>
        ELSE /\ pc' = "applied"
             /\ transaction' = Some(r.tx)
             /\ status' = r.status
             /\ action_collector' = r.collector
             /\ leadership_change' = r.change
             /\ record_lsn' = reader
             /\ reader' = LsnNext(reader)
             /\ sm_ran' = r.sm_ran
             /\ sm_execs' = IF r.sm_ran THEN [sm_execs EXCEPT ![reader] = @ + 1]
                            ELSE sm_execs
             /\ UNCHANGED << exit, leadership_state, status_watch >>
  /\ UNCHANGED << log, store, restarts, actuator, commits >>

\* select arm "record = log_reader.next()": create the transaction, clear the
\* scratch buffers and apply the record into the transaction.  A panic of
\* apply_record, or an error of the state machine or of a storage access in
\* it, ends run() and drops the transaction.
ApplyRecord ==
  /\ UNCHANGED << task_vars, ingress_vars >>
  /\ pc = "select"
  /\ reader <= Len(log)
  /\ \E failed \in BOOLEAN :
     LET r == apply_record(reader, log[reader], create_transaction(store), status,
                           ClearCollector(action_collector), leadership_state)
     IN IF r.result = "panic"
        THEN /\ pc' = "stopped"
             /\ exit' = "panic"
             /\ Dropped
             /\ UNCHANGED sm_execs
        ELSE IF failed
        THEN /\ pc' = "stopped"
             /\ exit' = "error"
             /\ Dropped
             /\ UNCHANGED sm_execs
        ELSE /\ pc' = "applied"
             /\ transaction' = Some(r.tx)
             /\ status' = r.status
             /\ action_collector' = r.collector
             /\ leadership_change' = r.change
             /\ record_lsn' = reader
             /\ reader' = LsnNext(reader)
             /\ sm_ran' = r.sm_ran
             /\ sm_execs' = IF r.sm_ran THEN [sm_execs EXCEPT ![reader] = @ + 1]
                            ELSE sm_execs
             /\ UNCHANGED << exit, leadership_state, status_watch >>
  /\ UNCHANGED << log, store, restarts, actuator, commits >>

\* Variant: the self number is written as a plain sequence number.
LeadershipChangeTransactionSn(tx, announce_leader) ==
  store_dedup_sequence_number(tx, SelfProducer, Sn(announce_leader.leader_epoch))

\* Variant: the self ESN is not written into the transaction of the record.
LeadershipChangeTransactionNoEsn(tx, announce_leader) == tx

\* The transaction of a record that changes the leadership: the new self ESN
\* is stored into the transaction of the record.
LeadershipChangeTransaction(tx, announce_leader) ==
  LET new_esn == EpochSequenceNumberNew(announce_leader.leader_epoch)
  IN store_dedup_sequence_number(tx, SelfProducer,
                                 Esn(new_esn.leader_epoch, new_esn.sequence_number))

\* Variant: the transition is taken without committing the transaction.
CommitLeadershipChangeNoCommit ==
  /\ UNCHANGED << task_vars, ingress_vars >>
  /\ pc = "applied"
  /\ leadership_change # None
  /\ LET announce_leader == leadership_change[1]
     IN status' = [status EXCEPT
                     !.last_observed_leader_epoch = Some(announce_leader.leader_epoch),
                     !.last_observed_leader_node = Some(announce_leader.node_id)]
  /\ transaction' = None
  /\ action_collector' = ClearCollector(action_collector)
  /\ pc' = "transition"
  /\ UNCHANGED << log, store, exit, reader, record_lsn, leadership_change,
                  leadership_state, status_watch, restarts, actuator, commits,
                  sm_execs, sm_ran >>

\* apply_record returned Some(announce_leader): record the observed leader,
\* store the self ESN, commit, and drop the collected actions.
CommitLeadershipChange ==
  /\ UNCHANGED << task_vars, ingress_vars >>
  /\ pc = "applied"
  /\ leadership_change # None
  /\ LET announce_leader == leadership_change[1]
     IN /\ status' = [status EXCEPT
                        !.last_observed_leader_epoch = Some(announce_leader.leader_epoch),
                        !.last_observed_leader_node = Some(announce_leader.node_id)]
        /\ store' = commit(store, LeadershipChangeTransaction(transaction[1], announce_leader))
  /\ transaction' = None
  /\ action_collector' = ClearCollector(action_collector)
  /\ commits' = Append(commits, [lsn |-> record_lsn, sm |-> sm_ran])
  /\ pc' = "transition"
  /\ UNCHANGED << log, exit, reader, record_lsn, leadership_change, leadership_state,
                  status_watch, restarts, actuator, sm_execs, sm_ran >>

\* Variant: every accepted announcement makes this node the leader.
TransitionAlwaysLeader ==
  /\ UNCHANGED << task_vars, ingress_vars >>
  /\ pc = "transition"
  /\ LET announce_leader == leadership_change[1]
         new_esn == EpochSequenceNumberNew(announce_leader.leader_epoch)
     IN /\ leadership_state' = become_leader(new_esn)
        /\ status' = [status EXCEPT !.effective_mode = Some("Leader")]
  /\ leadership_change' = None
  /\ record_lsn' = 0
  /\ sm_ran' = FALSE
  /\ pc' = "select"
  /\ UNCHANGED << log, store, transaction, exit, reader, action_collector,
                  status_watch, restarts, actuator, commits, sm_execs >>

\* After that commit: become leader under the announced epoch when the
\* announced node is this node, follower otherwise.
Transition ==
  /\ UNCHANGED << task_vars, ingress_vars >>
  /\ pc = "transition"
  /\ LET announce_leader == leadership_change[1]
         new_esn == EpochSequenceNumberNew(announce_leader.leader_epoch)
     IN IF announce_leader.node_id = my_node_id
        THEN /\ leadership_state' = become_leader(new_esn)
             /\ status' = [status EXCEPT !.effective_mode = Some("Leader")]
        ELSE /\ leadership_state' = become_follower
             /\ status' = [status EXCEPT !.effective_mode = Some("Follower")]
  /\ leadership_change' = None
  /\ record_lsn' = 0
  /\ sm_ran' = FALSE
  /\ pc' = "select"
  /\ UNCHANGED << log, store, transaction, exit, reader, action_collector,
                  status_watch, restarts, actuator, commits, sm_execs >>

\* Variant: the actions are handed to the leadership state before the commit.
CommitAfterDispatch ==
  /\ UNCHANGED << task_vars, ingress_vars >>
  /\ pc = "applied"
  /\ leadership_change = None
  /\ actuator' = handle_actions(leadership_state, actuator,
                                [ lsn |-> record_lsn,
                                  leader_epoch |-> leadership_state.leader_epoch,
                                  actions |-> action_collector ])
  /\ action_collector' = << >>
  /\ pc' = "dispatched"
  /\ UNCHANGED << log, store, transaction, exit, reader, record_lsn, leadership_change,
                  leadership_state, status, status_watch, restarts, commits,
                  sm_execs, sm_ran >>

\* Variant: the transaction is committed only by the leader.
CommitOnlyAsLeader ==
  /\ UNCHANGED << task_vars, ingress_vars >>
  /\ pc = "applied"
  /\ leadership_change = None
  /\ store' = IF leadership_state.is_leader THEN commit(store, transaction[1]) ELSE store
  /\ transaction' = None
  /\ commits' = IF leadership_state.is_leader
                THEN Append(commits, [lsn |-> record_lsn, sm |-> sm_ran]) ELSE commits
  /\ pc' = "committed"
  /\ UNCHANGED << log, exit, reader, record_lsn, leadership_change, action_collector,
                  leadership_state, status, status_watch, restarts, actuator,
                  sm_execs, sm_ran >>

\* apply_record returned None: commit the transaction of the record.
Commit ==
  /\ UNCHANGED << task_vars, ingress_vars >>
  /\ pc = "applied"
  /\ leadership_change = None
  /\ store' = commit(store, transaction[1])
  /\ transaction' = None
  /\ commits' = Append(commits, [lsn |-> record_lsn, sm |-> sm_ran])
  /\ pc' = "committed"
  /\ UNCHANGED << log, exit, reader, record_lsn, leadership_change, action_collector,
                  leadership_state, status, status_watch, restarts, actuator,
                  sm_execs, sm_ran >>

\* Variant: drain(1..), the first collected action stays behind.
DrainedFromSecond(collector) == SubSeq(collector, 2, Len(collector))

\* action_collector.drain(..): the batch handed over, in collection order
Drained(collector) == collector

\* After that commit: hand the collected actions to the leadership state.
HandleActions ==
  /\ UNCHANGED << task_vars, ingress_vars >>
  /\ pc = "committed"
  /\ actuator' = handle_actions(leadership_state, actuator,
                                [ lsn |-> record_lsn,
                                  leader_epoch |-> leadership_state.leader_epoch,
                                  actions |-> Drained(action_collector) ])
  /\ action_collector' = << >>
  /\ record_lsn' = 0
  /\ sm_ran' = FALSE
  /\ pc' = "select"
  /\ UNCHANGED << log, store, transaction, exit, reader, leadership_change,
                  leadership_state, status, status_watch, restarts, commits, sm_execs >>

\* select arm "status_update_timer.tick()": publish the status.
PublishStatus ==
  /\ UNCHANGED << task_vars, ingress_vars >>
  /\ pc = "select"
  /\ status_watch' = status
  /\ UNCHANGED << log, store, transaction, pc, exit, reader, record_lsn,
                  leadership_change, action_collector, leadership_state, status,
                  restarts, actuator, commits, sm_execs, sm_ran >>

\* Variant: the cancellation also interrupts a record between apply and commit.
CancelMidRecord ==
  /\ UNCHANGED << task_vars, ingress_vars >>
  /\ pc \in {"select", "applied"}
  /\ pc' = "stopped"
  /\ exit' = "cancel"
  /\ Dropped
  /\ UNCHANGED << log, store, restarts, actuator, commits, sm_execs >>

\* select arm "cancellation": leave the loop, become follower, return Ok.
Cancel ==
  /\ UNCHANGED << task_vars, ingress_vars >>
  /\ pc = "select"
  /\ pc' = "stopped"
  /\ exit' = "cancel"
  /\ Dropped
  /\ UNCHANGED << log, store, restarts, actuator, commits, sm_execs >>

\* The process dies at any point of run(); the open transaction is lost.
Crash ==
  /\ UNCHANGED << task_vars, ingress_vars >>
  /\ pc \in {"select", "applied", "transition", "committed"}
  /\ pc' = "stopped"
  /\ exit' = "crash"
  /\ Dropped
  /\ UNCHANGED << log, store, restarts, actuator, commits, sm_execs >>

\* The supervisor builds a new processor over the same partition store.
Restart ==
  /\ UNCHANGED << task_vars, ingress_vars >>
  /\ pc = "stopped"
  /\ restarts < MaxRestarts
  /\ restarts' = restarts + 1
  /\ pc' = "built"
  /\ exit' = "none"
  /\ UNCHANGED << log, store, transaction, reader, record_lsn, leadership_change,
                  action_collector, leadership_state, status, status_watch,
                  actuator, commits, sm_execs, sm_ran >>

Next ==
  \/ AppendRecord
  \/ Start
  \/ ApplyRecord
  \/ CommitLeadershipChange
  \/ Transition
  \/ Commit
  \/ HandleActions
  \/ PublishStatus
  \/ Cancel
  \/ Crash
  \/ Restart

Spec == Init /\ [][Next]_vars

\* ------------------------------------------------------------------------
\* Reference definitions of the properties
\* ------------------------------------------------------------------------
\* Epoch of the self ESN a store holds (0 when it holds none).
SelfEpoch(st) ==
  IF st.dedup[SelfProducer] = None THEN 0 ELSE st.dedup[SelfProducer][1].leader_epoch

\* a <= b for two dedup sequence numbers of the same kind
DsnLeq(a, b) ==
  /\ a.kind = b.kind
  /\ IF a.kind = "Esn"
     THEN \/ a.leader_epoch < b.leader_epoch
          \/ a.leader_epoch = b.leader_epoch /\ a.sequence_number <= b.sequence_number
     ELSE a.sequence_number <= b.sequence_number

\* The envelope is addressed to this partition.
Targeted(env) ==
  /\ env.header.dest.kind = "Processor"
  /\ env.header.dest.partition_key \in partition_key_range

HasDedup(env) == Targeted(env) /\ env.header.dest.dedup # None

DedupOf(env) == env.header.dest.dedup[1]

\* The envelope carries (producer, sn) with sn <= dedup_map[producer] in st.
DuplicateIn(env, st) ==
  /\ HasDedup(env)
  /\ st.dedup[DedupOf(env).producer_id] # None
  /\ DsnLeq(DedupOf(env).sequence_number, st.dedup[DedupOf(env).producer_id][1])

\* The envelope is a leader announcement the processor has to accept in st:
\* addressed to it, not a duplicate, of an epoch above the self epoch of st.
AcceptedAnnounceIn(env, st) ==
  /\ Targeted(env)
  /\ env.command.name = "AnnounceLeader"
  /\ ~DuplicateIn(env, st)
  /\ env.command.leader_epoch > SelfEpoch(st)

\* The envelope is handed to the state machine in st.
StateMachineRecordIn(env, st) ==
  /\ Targeted(env)
  /\ env.command.name # "AnnounceLeader"
  /\ ~DuplicateIn(env, st)

\* All mutations of the record (lsn, env) on the store st, as one store.
ExpectedStore(st, lsn, env) ==
  LET base == [st EXCEPT !.applied_lsn = Some(lsn)]
      upserted == IF HasDedup(env)
                  THEN [base EXCEPT !.dedup[DedupOf(env).producer_id] =
                                        Some(DedupOf(env).sequence_number)]
                  ELSE base
  IN IF ~Targeted(env) \/ DuplicateIn(env, st) THEN base
     ELSE IF env.command.name = "AnnounceLeader"
     THEN (IF env.command.leader_epoch > SelfEpoch(upserted)
           THEN [upserted EXCEPT !.dedup[SelfProducer] =
                                     Some(Esn(env.command.leader_epoch, 0))]
           ELSE upserted)
     ELSE StateMachineApply(env.command, upserted, << >>, FALSE).tx

\* The store a crash-free follower holds after the log prefix 1 .. n.
RECURSIVE ReplayStore(_)
ReplayStore(n) ==
  IF n = 0 THEN EmptyStore ELSE ExpectedStore(ReplayStore(n - 1), n, log[n])

\* The actions the state machine emits for the record at LSN l.
ExpectedActions(l) ==
  IF StateMachineRecordIn(log[l], ReplayStore(l - 1))
  THEN SMActions(log[l].command, ReplayStore(l - 1))
  ELSE << >>

\* ------------------------------------------------------------------------
\* Properties
\* ------------------------------------------------------------------------

\* C1: every batch an actuator has received belongs to a record whose
\* transaction has committed: its LSN is at most the durable applied_lsn and
\* is the LSN of a commit; while the transaction of a record is open, no
\* batch of that record has been received.
C1_ActionsAfterCommit ==
  /\ \A i \in DOMAIN actuator :
       /\ actuator[i].lsn <= load_applied_lsn(store)
       /\ \E j \in DOMAIN commits : commits[j].lsn = actuator[i].lsn
  /\ transaction # None => \A i \in DOMAIN actuator : actuator[i].lsn < record_lsn

\* C1 witness: the leader's actuators hold a batch of two actions.
C1_Witness ==
  \E i \in DOMAIN actuator : Len(actuator[i].actions) = 2

\* C2: every step that changes the durable store installs, at once,
\* applied_lsn = L and all the mutations of the record L in the handler
\* (dedup upsert, state-machine writes, self ESN of an accepted announcement).
C2_AtomicApply ==
  [][ store' # store =>
        /\ record_lsn \in 1 .. Len(log)
        /\ store' = ExpectedStore(store, record_lsn, log[record_lsn]) ]_vars

\* C2 witness: the commit of an accepted announcement that carried dedup
\* information is durable: applied_lsn, the producer's number and the self ESN.
C2_Witness ==
  /\ pc = "transition"
  /\ store.applied_lsn = Some(record_lsn)
  /\ store.dedup["p1"] = Some(Sn(1))
  /\ store.dedup[SelfProducer] = Some(Esn(MaxEpoch, 0))
  /\ HasDedup(log[record_lsn])

\* C3: every commit raises the durable applied_lsn to a strictly greater
\* LSN, also after a restart; no other step changes the store.
C3_AppliedLsnStrictlyMonotonic ==
  [][ (store' # store \/ commits' # commits) =>
        load_applied_lsn(store') > load_applied_lsn(store) ]_vars

\* C3 witness: a commit after a restart, on top of an earlier commit.
C3_Witness ==
  /\ restarts > 0
  /\ pc = "committed"
  /\ Len(commits) >= 2
  /\ store.applied_lsn = Some(record_lsn)

\* C4 as stated: the transactions commit once per LSN, in order and without
\* a gap, and the state machine is never executed twice for an LSN.
C4_Original ==
  /\ Len(commits) = load_applied_lsn(store)
  /\ \A i \in DOMAIN commits : commits[i].lsn = i
  /\ \A l \in DOMAIN sm_execs : sm_execs[l] <= 1

\* C4 amended: the transactions commit once per LSN, in order and without a
\* gap; the state machine's committed executions are one per record handed
\* to it and none for the others; a further execution for an LSN happens only
\* after a restart, its earlier execution having been rolled back; nothing
\* is executed ahead of the next LSN to commit.
C4_ExactlyOnceCommitted ==
  /\ Len(commits) = load_applied_lsn(store)
  /\ \A i \in DOMAIN commits :
       /\ commits[i].lsn = i
       /\ commits[i].sm = StateMachineRecordIn(log[i], ReplayStore(i - 1))
  /\ store.inbox_seq_number = Cardinality({i \in DOMAIN commits : commits[i].sm})
  /\ \A l \in DOMAIN sm_execs :
       /\ sm_execs[l] <= 1 + restarts
       /\ l > load_applied_lsn(store) + 1 => sm_execs[l] = 0
       /\ (l <= load_applied_lsn(store) /\ commits[l].sm) => sm_execs[l] >= 1

\* C4 witness: a record is committed whose state-machine execution ran twice,
\* the first one rolled back by a crash.
C4_Witness ==
  \E l \in DOMAIN sm_execs :
    /\ sm_execs[l] = 2
    /\ l <= load_applied_lsn(store)
    /\ commits[l].sm

\* C5: the self ESN of an accepted announcement is durable when the
\* transition is taken, and no leader state nor dispatched batch exists
\* under an epoch above the durable self epoch.
C5_EpochPersistedBeforeTransition ==
  /\ pc = "transition" => store.dedup[SelfProducer] =
                            Some(Esn(leadership_change[1].leader_epoch, 0))
  /\ pc = "transition" => store.applied_lsn = Some(record_lsn)
  /\ leadership_state.is_leader => leadership_state.leader_epoch <= SelfEpoch(store)
  /\ \A i \in DOMAIN actuator : actuator[i].leader_epoch <= SelfEpoch(store)

\* C5 witness: the leader of epoch MaxEpoch has dispatched actions.
C5_Witness ==
  /\ leadership_state = Leader(MaxEpoch)
  /\ \E i \in DOMAIN actuator :
       actuator[i].leader_epoch = MaxEpoch /\ actuator[i].actions # << >>

C7_DuplicateHasNoEffect ==
  /\ (pc = "applied" /\ DuplicateIn(log[record_lsn], store))
       => /\ ~sm_ran
          /\ leadership_change = None
          /\ action_collector = << >>
          /\ transaction = Some([store EXCEPT !.applied_lsn = Some(record_lsn)])
  /\ \A i \in DOMAIN actuator :
       actuator[i].actions # << >>
         => \E j \in DOMAIN commits : commits[j].lsn = actuator[i].lsn /\ commits[j].sm
  /\ \A i, j \in DOMAIN commits :
       ( /\ i < j /\ commits[i].sm /\ commits[j].sm
         /\ commits[i].lsn \in 1 .. Len(log) /\ commits[j].lsn \in 1 .. Len(log)
         /\ HasDedup(log[commits[i].lsn]) /\ HasDedup(log[commits[j].lsn])
         /\ DedupOf(log[commits[i].lsn]).producer_id = DedupOf(log[commits[j].lsn]).producer_id )
       => ~DsnLeq(DedupOf(log[commits[j].lsn]).sequence_number,
                  DedupOf(log[commits[i].lsn]).sequence_number)

\* C7 witness: the leader has applied a duplicate of a number it committed.
C7_Witness ==
  /\ pc = "applied"
  /\ leadership_state.is_leader
  /\ DuplicateIn(log[record_lsn], store)
  /\ store.inbox_seq_number >= 1

\* C8: every batch handed to the actuators holds exactly the actions emitted
\* for its record, in emission order; the batches follow the LSN order, one
\* per record at most; no batch belongs to a record that changed the leadership.
C8_BatchIsTheRecordsActions ==
  /\ \A i \in DOMAIN actuator :
       /\ actuator[i].lsn \in 1 .. Len(log)
       /\ actuator[i].actions = ExpectedActions(actuator[i].lsn)
       /\ ~AcceptedAnnounceIn(log[actuator[i].lsn], ReplayStore(actuator[i].lsn - 1))
  /\ \A i, j \in DOMAIN actuator : i < j => actuator[i].lsn < actuator[j].lsn
  /\ pc = "transition" => action_collector = << >>

\* C8 witness: two batches of different records, both with actions.
C8_Witness ==
  \E i, j \in DOMAIN actuator :
    /\ i < j
    /\ Len(actuator[i].actions) = 2
    /\ actuator[j].actions # << >>

\* C9: a follower collects no action and its actuators receive none; with
\* no leader announcement in the log nothing is dispatched and effective_mode
\* is unset.
C9_FollowerDispatchesNothing ==
  /\ ~leadership_state.is_leader => action_collector = << >>
  /\ \A i \in DOMAIN actuator : actuator[i].leader_epoch >= 1
  /\ (\A l \in DOMAIN log : log[l].command.name # "AnnounceLeader")
       => actuator = << >> /\ status.effective_mode = None

\* C9 witness: a follower has committed state-machine records, no leader
\* having been announced.
C9_Witness ==
  /\ pc = "committed"
  /\ sm_ran
  /\ Len(commits) >= 2
  /\ store.inbox_seq_number >= 2
  /\ \A l \in DOMAIN log : log[l].command.name # "AnnounceLeader"

\* C10: the durable store is the replay of the log prefix up to its
\* applied_lsn, whatever the leadership, the announced nodes and the crashes
\* have been.
C10_StoreIsReplayOfPrefix ==
  /\ load_applied_lsn(store) <= Len(log)
  /\ store = ReplayStore(load_applied_lsn(store))

\* C10 witness: after a restart, a store of three records that was written
\* partly by a leader, with state-machine and dedup mutations.
C10_Witness ==
  /\ restarts > 0
  /\ store.applied_lsn = Some(MaxLog)
  /\ store.inbox_seq_number >= 1
  /\ store.dedup[SelfProducer] # None
  /\ actuator # << >>

\* The applied LSN of a status snapshot; a snapshot without one counts as
\* below every LSN.
SnapshotLsn(snapshot) ==
  IF snapshot.last_applied_log_lsn = None THEN -1
  ELSE snapshot.last_applied_log_lsn[1]

\* C20: within one run of the processor, the last_applied_log_lsn of the
\* snapshot on the watch channel never decreases from one snapshot to the
\* next (the step that ends the run drops the channel).
C20_PublishedLsnMonotone ==
  [][ pc' # "stopped" => SnapshotLsn(status_watch') >= SnapshotLsn(status_watch) ]_vars

\* C20 witness: after a restart, a snapshot with applied LSN 2 is published
\* while the status already holds LSN 3.
C20_Witness ==
  /\ pc = "select"
  /\ restarts > 0
  /\ status_watch.last_applied_log_lsn = Some(2)
  /\ status.last_applied_log_lsn = Some(3)

\* ------------------------------------------------------------------------
\* Reference definitions for the start-up, shutdown and drop properties
\* ------------------------------------------------------------------------
\* The processor runs its loop on an empty log with nothing applied: the
\* status is the one run() set before the loop.
ColdStartEmptyLog ==
  /\ pc = "select"
  /\ log = << >>
  /\ store.applied_lsn = None

\* LSN of the last committed transaction (INVALID when there is none).
LastCommittedLsn ==
  IF commits = << >> THEN LsnINVALID ELSE commits[Len(commits)].lsn

\* The envelope carries a sequence number of another kind than the one st
\* holds for its producer.
KindMismatchIn(env, st) ==
  /\ HasDedup(env)
  /\ st.dedup[DedupOf(env).producer_id] # None
  /\ st.dedup[DedupOf(env).producer_id][1].kind # DedupOf(env).sequence_number.kind

\* The envelope is a leader announcement that reaches the epoch check in st
\* with an epoch that is not above the self epoch of st.
OutdatedAnnounceIn(env, st) ==
  /\ Targeted(env)
  /\ env.command.name = "AnnounceLeader"
  /\ ~DuplicateIn(env, st)
  /\ ~KindMismatchIn(env, st)
  /\ env.command.leader_epoch <= SelfEpoch(st)

\* st with applied_lsn = lsn and nothing else changed.
OnlyAppliedLsn(st, lsn) == [st EXCEPT !.applied_lsn = Some(lsn)]

\* st with applied_lsn = lsn and the dedup number of the envelope (if it
\* carries one) stored for its producer.
AppliedLsnAndDedup(st, lsn, env) ==
  IF HasDedup(env)
  THEN [st EXCEPT !.applied_lsn = Some(lsn),
                  !.dedup[DedupOf(env).producer_id] = Some(DedupOf(env).sequence_number)]
  ELSE OnlyAppliedLsn(st, lsn)

\* The step applies the record at `reader` into a new transaction.
AppliesRecord == pc = "select" /\ pc' = "applied"

\* The step leaves the handler of a record by a commit of any kind.
LeavesApplied == pc = "applied" /\ pc' \notin {"applied", "stopped"}

\* ------------------------------------------------------------------------
\* Properties of start-up, shutdown and dropped records (specification Spec)
\* ------------------------------------------------------------------------

C23_CancelAtSelectionPoint ==
  [][ (exit' = "cancel" /\ exit # "cancel")
        => /\ pc = "select"
           /\ transaction = None
           /\ pc' = "stopped"
           /\ leadership_state' = Follower
           /\ transaction' = None
           /\ store' = store
           /\ load_applied_lsn(store') = LastCommittedLsn ]_vars

\* C23 witness: a processor cancelled right after it dispatched, as leader,
\* the actions of its last committed record.
C23_Witness ==
  /\ exit = "cancel"
  /\ actuator # << >>
  /\ actuator[Len(actuator)].lsn = LastCommittedLsn
  /\ actuator[Len(actuator)].leader_epoch > 0
  /\ leadership_state = Follower

\* C24: an error of the state machine or of a storage access in apply_record
\* ends run(): the transaction is dropped, the store, the commits and the
\* dispatched batches are those before the record, and no snapshot reports
\* the record.
C24_ErrorDropsTransaction ==
  [][ (exit' = "error" /\ exit # "error")
        => /\ pc = "select"
           /\ pc' = "stopped"
           /\ transaction' = None
           /\ store' = store
           /\ commits' = commits
           /\ actuator' = actuator
           /\ load_applied_lsn(store') = reader - 1
           /\ SnapshotLsn(status_watch') # reader ]_vars

\* C24 witness: run() ended with an error on a state-machine record that
\* follows a committed record.
C24_Witness ==
  /\ exit = "error"
  /\ pc = "stopped"
  /\ Len(commits) >= 1
  /\ Len(log) > LastCommittedLsn
  /\ StateMachineRecordIn(log[LastCommittedLsn + 1], store)

C28_SkippedRecord ==
  [][ /\ (pc = "select" /\ pc' = "stopped" /\ reader <= Len(log)
            /\ ~Targeted(log[reader]))
        => exit' # "panic"
      /\ (AppliesRecord /\ ~Targeted(log[reader]))
        => /\ status'.num_skipped_records = status.num_skipped_records + 1
           /\ ~sm_ran'
           /\ leadership_change' = None
           /\ action_collector' = << >>
           /\ leadership_state' = leadership_state
           /\ transaction' = Some(OnlyAppliedLsn(store, reader))
      /\ (LeavesApplied /\ ~Targeted(log[record_lsn]))
        => /\ pc' = "committed"
           /\ store' = OnlyAppliedLsn(store, record_lsn)
      /\ (AppliesRecord /\ Targeted(log[reader]))
        => status'.num_skipped_records = status.num_skipped_records ]_vars

\* C28 witness: a skipped leader announcement whose dedup number is of
\* another kind than the number stored for its producer.
C28_Witness ==
  /\ pc = "applied"
  /\ ~Targeted(log[record_lsn])
  /\ log[record_lsn].command.name = "AnnounceLeader"
  /\ store.dedup["p1"] = Some(Sn(1))
  /\ log[record_lsn].header.dest.dedup[1].sequence_number.kind = "Esn"
  /\ status.num_skipped_records = 1

\* C29: an envelope of the self producer whose ESN has an epoch below the
\* epoch of the stored self ESN is dropped: the state machine is not invoked
\* and dedup_map[self] stays; the stored self epoch is at least the epoch of
\* every announcement accepted so far.
C29_PreviousLeaderFenced ==
  /\ ( /\ pc = "applied"
       /\ HasDedup(log[record_lsn])
       /\ DedupOf(log[record_lsn]).producer_id = SelfProducer
       /\ DedupOf(log[record_lsn]).sequence_number.kind = "Esn"
       /\ DedupOf(log[record_lsn]).sequence_number.leader_epoch < SelfEpoch(store) )
     => /\ ~sm_ran
        /\ leadership_change = None
        /\ action_collector = << >>
        /\ transaction[1].dedup[SelfProducer] = store.dedup[SelfProducer]
  /\ \A l \in 1 .. load_applied_lsn(store) :
       AcceptedAnnounceIn(log[l], ReplayStore(l - 1))
         => SelfEpoch(store) >= log[l].command.leader_epoch

\* C29 witness: the leader of epoch MaxEpoch has applied a message of the
\* leader of epoch 1.
C29_Witness ==
  /\ pc = "applied"
  /\ leadership_state = Leader(MaxEpoch)
  /\ HasDedup(log[record_lsn])
  /\ DedupOf(log[record_lsn]) = DedupInformation(SelfProducer, Esn(1, 1))
  /\ store.dedup[SelfProducer] = Some(Esn(MaxEpoch, 0))

\* a < b for two dedup sequence numbers of the same kind
DsnLess(a, b) == DsnLeq(a, b) /\ a # b

\* C33: the number the store holds for a producer never decreases: a step
\* that changes dedup_map[producer] sets a number where there was none, or
\* replaces the number by a strictly greater one of the same kind.
C33_DedupNeverDecreases ==
  [][ \A p \in Producers :
        store'.dedup[p] # store.dedup[p]
          => /\ store'.dedup[p] # None
             /\ store.dedup[p] # None => DsnLess(store.dedup[p][1], store'.dedup[p][1])
             /\ pc = "applied" ]_vars

\* C33 witness: the self ESN went from the epoch of a first accepted
\* announcement to that of a second one and then to the ESN of a message of
\* the new leader, which the state machine applied.
C33_Witness ==
  /\ Len(log) = MaxLog
  /\ load_applied_lsn(store) = MaxLog
  /\ AcceptedAnnounceIn(log[1], ReplayStore(0))
  /\ log[1].command.leader_epoch < MaxEpoch
  /\ AcceptedAnnounceIn(log[2], ReplayStore(1))
  /\ HasDedup(log[3])
  /\ DedupOf(log[3]).producer_id = SelfProducer
  /\ store.dedup[SelfProducer] = Some(DedupOf(log[3]).sequence_number)
  /\ commits[Len(commits)].sm

\* ========================================================================
\* Invocation task (invoker/src/invocation_task.rs)
\* ========================================================================

\* ------------------------------------------------------------------------
\* Values
\* ------------------------------------------------------------------------
APPLICATION_RESTATE == "application/restate"

\* http::response::Parts: the status code and the Content-Type header.
Parts(code, ct) == [status |-> code, content_type |-> ct]

StatusCodes == {200, 204, 300, 404}
ContentTypes == {None, Some(APPLICATION_RESTATE), Some("application/json")}
ResponseParts == {Parts(s, ct) : s \in StatusCodes, ct \in ContentTypes}

\* StatusCode::is_success
is_success(code) == 200 <= code /\ code < 300

\* hyper::Error: the h2 reason found in its cause stack (if any) and whether
\* it reports a closed channel.
HyperError(h2, closed) == [h2 |-> h2, closed |-> closed]

\* Errors of the response future and of the response body.
ReadErrors == {HyperError(r, FALSE) : r \in {None, Some("NO_ERROR"), Some("CANCEL")}}

\* Errors of Sender::send_data.
WriteErrors == {HyperError(None, c) : c \in BOOLEAN}

\* h2_reason: the reason in the cause stack, otherwise INTERNAL_ERROR.
h2_reason(err) == IF err.h2 = None THEN "INTERNAL_ERROR" ELSE err.h2[1]

\* InvocationTaskError
Error(kind, code, name) == [kind |-> kind, status |-> code, name |-> name]
NoError == Error("none", 0, "-")
UnexpectedResponse(code) == Error("UnexpectedResponse", code, "-")
UnexpectedContentType(ct) ==
  Error("UnexpectedContentType", 0, IF ct = None THEN "None" ELSE ct[1])
UnexpectedMessage(message_type) == Error("UnexpectedMessage", 0, message_type)
Encoding == Error("Encoding", 0, "-")
JournalReaderError == Error("JournalReader", 0, "-")
Network(err) == Error("Network", 0, h2_reason(err))
UnexpectedJoinError == Error("UnexpectedJoinError", 0, "-")

\* TerminalLoopState
LoopState(state, entries, error) == [state |-> state, entries |-> entries, error |-> error]
Continue == LoopState("Continue", {}, NoError)
Closed == LoopState("Closed", {}, NoError)
Suspended(entries) == LoopState("Suspended", entries, NoError)
Failed(error) == LoopState("Failed", {}, error)

\* InvocationTaskOutputInner
NewEntry(entry_index) ==
  [type |-> "NewEntry", entry_index |-> entry_index, entries |-> {}, error |-> NoError]
TaskOutput(result) ==
  [type |-> result.state, entry_index |-> 0, entries |-> result.entries,
   error |-> result.error]

TerminalTypes == {"Closed", "Suspended", "Failed"}

\* ProtocolMessage as the decoder yields it; "Garbage" stands for bytes the
\* decoder rejects.
Message(type, entry_indexes) == [type |-> type, entry_indexes |-> entry_indexes]
SuspensionIndexes == { <<3>>, <<1, 3, 1>> }
Frames ==
  {Message(t, << >>) : t \in {"Start", "Completion", "Entry", "Garbage"}}
    \cup {Message("Suspension", ix) : ix \in SuspensionIndexes}

RECURSIVE SeqsUpTo(_, _)
SeqsUpTo(S, n) ==
  IF n = 0 THEN { << >> }
  ELSE LET shorter == SeqsUpTo(S, n - 1)
       IN shorter \cup {Append(q, x) : q \in {r \in shorter : Len(r) = n - 1}, x \in S}

\* A buffer of the response body: up to MaxFrames whole frames.
Buffers == SeqsUpTo(Frames, MaxFrames)

Range(q) == {q[i] : i \in 1 .. Len(q)}

\* ------------------------------------------------------------------------
\* Pure parts of the task
\* ------------------------------------------------------------------------
\* Variant: every transport error is a network failure.
From_hyper_Error_always_failed(err) == Failed(Network(err))

\* impl From<hyper::Error> for TerminalLoopState
From_hyper_Error(err) ==
  IF h2_reason(err) = "NO_ERROR" THEN Closed ELSE Failed(Network(err))

\* Variant: the content type is checked before the status.
validate_response_content_type_first(parts) ==
  IF parts.content_type = None \/ parts.content_type[1] # APPLICATION_RESTATE
  THEN Failed(UnexpectedContentType(parts.content_type))
  ELSE IF ~is_success(parts.status)
  THEN Failed(UnexpectedResponse(parts.status))
  ELSE Continue

\* validate_response, as the TerminalLoopState shortcircuit! makes of it
validate_response(parts) ==
  IF ~is_success(parts.status)
  THEN Failed(UnexpectedResponse(parts.status))
  ELSE IF parts.content_type = None
  THEN Failed(UnexpectedContentType(None))
  ELSE IF parts.content_type[1] # APPLICATION_RESTATE
  THEN Failed(UnexpectedContentType(parts.content_type))
  ELSE Continue

\* The state of a task that handle_read and handle_message change.
TaskState(index, tx) == [next_journal_index |-> index, invoker_tx |-> tx]
Handled(result, task) == [result |-> result, task |-> task]

\* Variant: a Suspension message is skipped.
handle_message_skip_suspension(message, task) ==
  CASE message.type = "Start" -> Handled(Failed(UnexpectedMessage("Start")), task)
    [] message.type = "Completion" ->
         Handled(Failed(UnexpectedMessage("Completion")), task)
    [] message.type = "Suspension" -> Handled(Continue, task)
    [] OTHER ->
         Handled(Continue,
                 TaskState(task.next_journal_index + 1,
                           Append(task.invoker_tx, NewEntry(task.next_journal_index))))

\* Variant: an inbound Completion is skipped.
handle_message_skip_completion(message, task) ==
  CASE message.type = "Start" -> Handled(Failed(UnexpectedMessage("Start")), task)
    [] message.type = "Completion" -> Handled(Continue, task)
    [] message.type = "Suspension" ->
         Handled(Suspended(Range(message.entry_indexes)), task)
    [] OTHER ->
         Handled(Continue,
                 TaskState(task.next_journal_index + 1,
                           Append(task.invoker_tx, NewEntry(task.next_journal_index))))

\* Variant: next_journal_index is not incremented after a NewEntry.
handle_message_no_increment(message, task) ==
  CASE message.type = "Start" -> Handled(Failed(UnexpectedMessage("Start")), task)
    [] message.type = "Completion" ->
         Handled(Failed(UnexpectedMessage("Completion")), task)
    [] message.type = "Suspension" ->
         Handled(Suspended(Range(message.entry_indexes)), task)
    [] OTHER ->
         Handled(Continue,
                 TaskState(task.next_journal_index,
                           Append(task.invoker_tx, NewEntry(task.next_journal_index))))

\* handle_message
handle_message(message, task) ==
  CASE message.type = "Start" -> Handled(Failed(UnexpectedMessage("Start")), task)
    [] message.type = "Completion" ->
         Handled(Failed(UnexpectedMessage("Completion")), task)
    [] message.type = "Suspension" ->
         Handled(Suspended(Range(message.entry_indexes)), task)
    [] OTHER ->
         Handled(Continue,
                 TaskState(task.next_journal_index + 1,
                           Append(task.invoker_tx, NewEntry(task.next_journal_index))))

\* handle_read: decode the frames of the buffer one by one and handle each,
\* until one of them does not continue.
RECURSIVE handle_read(_, _)
handle_read(buf, task) ==
  IF buf = << >> THEN Handled(Continue, task)
  ELSE IF Head(buf).type = "Garbage" THEN Handled(Failed(Encoding), task)
  ELSE LET h == handle_message(Head(buf), task)
       IN IF h.result.state = "Continue" THEN handle_read(Tail(buf), h.task) ELSE h

\* Results of Sender::send_data: once the endpoint closed the channel every
\* send reports it closed.
SendResults(tx) ==
  IF tx.closed THEN {Some(HyperError(None, TRUE))}
  ELSE {None} \cup {Some(e) : e \in WriteErrors}

\* The messages the task writes on the request body: Start carries
\* journal_size, an entry is named by its position in the journal, a
\* completion by its position among the completions received.
ProtocolMessage(type, n) == [type |-> type, n |-> n]

\* What write leaves: its result and the sender.
Written(result, tx) == [result |-> result, tx |-> tx]

\* Variant: every failed send fails the task.
write_fail_on_closed(tx, msg, send_res) ==
  IF send_res = None THEN Written(Continue, [tx EXCEPT !.sent = Append(@, msg)])
  ELSE Written(Failed(Network(send_res[1])), tx)

\* write: encode the message and send it; a closed channel is not an error.
write(tx, msg, send_res) ==
  IF send_res = None THEN Written(Continue, [tx EXCEPT !.sent = Append(@, msg)])
  ELSE IF ~send_res[1].closed THEN Written(Failed(Network(send_res[1])), tx)
  ELSE Written(Continue, [tx EXCEPT !.closed = TRUE])

\* The journal stream yields the journal_size entries of the journal.
JournalStreamLen(size) == size

\* Variant: the terminal state is not sent to the invoker.
ReportNothing(tx, result) == tx

\* run: the terminal state of run_internal is sent to the invoker.
Report(tx, result) == Append(tx, TaskOutput(result))

\* Variant: the replay loop ends as soon as the journal stream has ended.
ReplayFinishedOnJournalEnd(rx_res, stream) == stream = 0

\* Variant: the replay loop ends as soon as the response head is there.
ReplayFinishedOnResponse(rx_res, stream) == rx_res

\* wait_response_and_replay_end_loop, "else => break": both select arms are
\* disabled, the response is there and the journal stream has ended.
ReplayFinished(rx_res, stream) == rx_res /\ stream = 0

\* Variant: a closed completion channel closes the task.
CompletionChannelClosedEndsTask == Closed

\* bidi_stream_loop, recv() = None
CompletionChannelClosed == Continue

\* Variant: the end of the body is a failure.
ResponseStreamClosedFails == Failed(Network(HyperError(None, TRUE)))

\* bidi_stream_loop and response_stream_loop, end of the response body
ResponseStreamClosed == Closed

\* ------------------------------------------------------------------------
\* Steps of an invocation task
\* ------------------------------------------------------------------------
\* A task is created (InvocationTask::new) with or without a completions
\* receiver.
TaskInit ==
  /\ ProcessorBuilt
  /\ task_pc = "new"
  /\ journal_size = 0
  /\ journal_stream = 0
  /\ next_journal_index = 0
  /\ invoker_rx \in {None, Some("open")}
  /\ invoker_tx = << >>
  /\ http_stream_tx = [sent |-> << >>, closed |-> FALSE]
  /\ http_stream_rx_res = FALSE
  /\ completions = 0
  /\ body_reads = 0
  /\ inbound = << >>
  /\ last_event = Event("none", "none", None, None)
  /\ replay_end_index = None
  /\ NoReplay
  /\ NoQuery

\* The end of a step: the task goes on at pc_next, or run_internal returns
\* and run() reports the terminal state.
Proceed(result, pc_next, tx) ==
  IF result.state = "Continue"
  THEN /\ task_pc' = pc_next
       /\ invoker_tx' = tx
  ELSE /\ task_pc' = "done"
       /\ invoker_tx' = Report(tx, result)

\* run_internal up to the replay loop: resolve the journal, prepare the
\* request and write the Start message.
TaskStart ==
  /\ task_pc = "new"
  /\ \E input \in {"NoCachedJournal", "CachedJournal"}, size \in 0 .. MaxJournal,
        read_ok \in BOOLEAN, send_res \in SendResults(http_stream_tx) :
       IF input = "NoCachedJournal" /\ ~read_ok
       THEN /\ Proceed(Failed(JournalReaderError), "replay", invoker_tx)
            /\ last_event' = Event("journal_error", "start", None, None)
            /\ UNCHANGED << journal_size, journal_stream, http_stream_tx >>
       ELSE /\ input = "CachedJournal" => read_ok
            /\ LET w == write(http_stream_tx, ProtocolMessage("Start", size), send_res)
               IN /\ http_stream_tx' = w.tx
                  /\ Proceed(w.result, "replay", invoker_tx)
                  /\ last_event' = Event(IF w.result.state = "Continue" THEN "start"
                                         ELSE "write_error", "start", send_res, None)
            /\ journal_size' = size
            /\ journal_stream' = JournalStreamLen(size)
  /\ UNCHANGED << next_journal_index, invoker_rx, http_stream_rx_res, completions,
                  body_reads, inbound, replay_end_index >>
  /\ UNCHANGED replay_vars
  /\ UNCHANGED << vars, ingress_vars >>

\* What the spawned request future resolves to.
ResponseResults ==
  {[kind |-> "join_error", err |-> None, parts |-> None]}
    \cup {[kind |-> "hyper_err", err |-> Some(e), parts |-> None] : e \in ReadErrors}
    \cup {[kind |-> "head", err |-> None, parts |-> Some(p)] : p \in ResponseParts}

\* Replay loop, arm "response_res = &mut req_fut, if http_stream_rx_res.is_none()".
ResponseHead ==
  /\ task_pc = "replay"
  /\ ~http_stream_rx_res
  /\ \E response_res \in ResponseResults :
       LET result == CASE response_res.kind = "join_error" -> Failed(UnexpectedJoinError)
                       [] response_res.kind = "hyper_err" ->
                            From_hyper_Error(response_res.err[1])
                       [] OTHER -> validate_response(response_res.parts[1])
       IN /\ Proceed(result, "replay", invoker_tx)
          /\ http_stream_rx_res' = (result.state = "Continue")
          /\ last_event' = Event(response_res.kind, "replay", response_res.err,
                                 response_res.parts)
  /\ UNCHANGED << journal_size, journal_stream, next_journal_index, invoker_rx,
                  http_stream_tx, completions, body_reads, inbound, replay_end_index >>
  /\ UNCHANGED replay_vars
  /\ UNCHANGED << vars, ingress_vars >>

\* Replay loop, arm "Some(je) = journal_stream.next()".
ReplayEntry ==
  /\ task_pc = "replay"
  /\ journal_stream > 0
  /\ \E send_res \in SendResults(http_stream_tx) :
       LET w == write(http_stream_tx,
                      ProtocolMessage("Entry", JournalStreamLen(journal_size) - journal_stream),
                      send_res)
       IN /\ http_stream_tx' = w.tx
          /\ Proceed(w.result, "replay", invoker_tx)
          /\ IF w.result.state = "Continue"
             THEN /\ next_journal_index' = next_journal_index + 1
                  /\ journal_stream' = journal_stream - 1
                  /\ last_event' = Event("replay_entry", "replay", send_res, None)
             ELSE /\ UNCHANGED << next_journal_index, journal_stream >>
                  /\ last_event' = Event("write_error", "replay", send_res, None)
  /\ UNCHANGED << journal_size, invoker_rx, http_stream_rx_res, completions,
                  body_reads, inbound, replay_end_index >>
  /\ UNCHANGED replay_vars
  /\ UNCHANGED << vars, ingress_vars >>

\* Replay loop, "else => break", and run_internal up to the next loop: with
\* the completions receiver the bidi loop, without it the response loop.
ReplayEnd ==
  /\ task_pc = "replay"
  /\ ReplayFinished(http_stream_rx_res, journal_stream)
  /\ replay_end_index' = Some(next_journal_index)
  /\ task_pc' = IF invoker_rx # None THEN "bidi" ELSE "response"
  /\ last_event' = Event("replay_end", "replay", None, None)
  /\ UNCHANGED << journal_size, journal_stream, next_journal_index, invoker_rx,
                  invoker_tx, http_stream_tx, http_stream_rx_res, completions,
                  body_reads, inbound >>
  /\ UNCHANGED replay_vars
  /\ UNCHANGED << vars, ingress_vars >>

\* Bidi loop, arm "opt_completion = invoker_rx.recv()": a completion is
\* written to the endpoint; a closed channel ends the bidi loop and
\* run_internal goes on with the response loop.
BidiRecv ==
  /\ task_pc = "bidi"
  /\ \/ /\ completions < MaxCompletions
        /\ completions' = completions + 1
        /\ \E send_res \in SendResults(http_stream_tx) :
             LET w == write(http_stream_tx, ProtocolMessage("Completion", completions + 1),
                            send_res)
             IN /\ http_stream_tx' = w.tx
                /\ Proceed(w.result, "bidi", invoker_tx)
                /\ last_event' = Event(IF w.result.state = "Continue" THEN "completion"
                                       ELSE "write_error", "bidi", send_res, None)
        /\ UNCHANGED invoker_rx
     \/ /\ invoker_rx' = Some("closed")
        /\ Proceed(CompletionChannelClosed, "response", invoker_tx)
        /\ last_event' = Event("channel_closed", "bidi", None, None)
        /\ UNCHANGED << completions, http_stream_tx >>
  /\ UNCHANGED << journal_size, journal_stream, next_journal_index,
                  http_stream_rx_res, body_reads, inbound, replay_end_index >>
  /\ UNCHANGED replay_vars
  /\ UNCHANGED << vars, ingress_vars >>

\* What http_stream_rx.next() yields.
BodyItems ==
  {[kind |-> "buffer", buf |-> b, err |-> None] : b \in Buffers}
    \cup {[kind |-> "hyper_err", buf |-> << >>, err |-> Some(e)] : e \in ReadErrors}
    \cup {[kind |-> "end_of_body", buf |-> << >>, err |-> None]}

\* One item of the response body, as both the bidi loop and the response
\* loop handle it.
ReadBody(phase) ==
  /\ \E item \in BodyItems :
       /\ item.kind = "buffer" => body_reads < MaxBuffers
       /\ LET h == CASE item.kind = "buffer" ->
                        handle_read(item.buf, TaskState(next_journal_index, invoker_tx))
                     [] item.kind = "hyper_err" ->
                        Handled(From_hyper_Error(item.err[1]),
                                TaskState(next_journal_index, invoker_tx))
                     [] OTHER ->
                        Handled(ResponseStreamClosed,
                                TaskState(next_journal_index, invoker_tx))
          IN /\ next_journal_index' = h.task.next_journal_index
             /\ Proceed(h.result, phase, h.task.invoker_tx)
       /\ body_reads' = IF item.kind = "buffer" THEN body_reads + 1 ELSE body_reads
       /\ inbound' = inbound \o item.buf
       /\ last_event' = Event(item.kind, phase, item.err, None)
  /\ UNCHANGED << journal_size, journal_stream, invoker_rx, http_stream_tx,
                  http_stream_rx_res, completions, replay_end_index >>
  /\ UNCHANGED replay_vars
  /\ UNCHANGED << vars, ingress_vars >>

\* Bidi loop, arm "opt_buf = http_stream_rx.next()".
BidiRead ==
  /\ task_pc = "bidi"
  /\ ReadBody("bidi")

\* response_stream_loop
ResponseRead ==
  /\ task_pc = "response"
  /\ ReadBody("response")

TaskNext ==
  \/ TaskStart
  \/ ResponseHead
  \/ ReplayEntry
  \/ ReplayEnd
  \/ BidiRecv
  \/ BidiRead
  \/ ResponseRead

TaskSpec == TaskInit /\ [][TaskNext]_task_vars

\* ------------------------------------------------------------------------
\* Reference definitions for the properties of the invocation task
\* ------------------------------------------------------------------------
IsNewEntry(o) == o.type = "NewEntry"
IsEntryFrame(f) == f.type = "Entry"

\* The NewEntry outputs of the task, in order.
NewEntries == SelectSeq(invoker_tx, IsNewEntry)

\* Positions of the terminal outputs in invoker_tx.
TerminalPositions == {i \in 1 .. Len(invoker_tx) : invoker_tx[i].type \in TerminalTypes}

LastOutput == invoker_tx[Len(invoker_tx)]

\* Position of the first inbound frame that is not an Entry (0: none).
FirstStop ==
  LET stops == {i \in 1 .. Len(inbound) : ~IsEntryFrame(inbound[i])}
  IN IF stops = {} THEN 0 ELSE CHOOSE i \in stops : \A j \in stops : i <= j

\* Number of inbound Entry frames up to the first frame that is not one.
LeadingEntries == IF FirstStop = 0 THEN Len(inbound) ELSE FirstStop - 1

\* The task ended in the step that read a buffer of the body.
EndedOnBuffer == task_pc = "done" /\ last_event.kind = "buffer"

\* ------------------------------------------------------------------------
\* Properties of the invocation task (specification TaskSpec)
\* ------------------------------------------------------------------------

\* C11: a task sends at most one terminal output (Closed, Suspended or
\* Failed), the terminal output is the last output, so every NewEntry
\* precedes it, and a task that has ended has sent exactly one.
C11_TerminalUniqueness ==
  /\ Cardinality(TerminalPositions) <= 1
  /\ TerminalPositions \subseteq {Len(invoker_tx)}
  /\ task_pc = "done" <=> TerminalPositions # {}

\* C11 witness: a task ended with NewEntry outputs before its terminal output.
C11_Witness ==
  /\ task_pc = "done"
  /\ Len(NewEntries) >= 2
  /\ LastOutput.type = "Suspended"

\* C12: when the replay loop ends without a terminal state, next_journal_index
\* equals journal_metadata.journal_size.
C12_ReplaySize ==
  replay_end_index # None => replay_end_index[1] = journal_size

\* C12 witness: the replay of a journal of MaxJournal entries has ended and
\* all of them were accepted by the request body.
C12_Witness ==
  /\ replay_end_index = Some(MaxJournal)
  /\ task_pc \in {"bidi", "response"}
  /\ Len(http_stream_tx.sent) = MaxJournal + 1

\* C13: the k-th inbound Entry (from 0) is emitted as NewEntry with index
\* journal_size + k; every Entry handled is emitted once and
\* next_journal_index is the index after the last one.
C13_EntryIndexes ==
  /\ Len(NewEntries) = LeadingEntries
  /\ \A k \in 1 .. Len(NewEntries) : NewEntries[k].entry_index = journal_size + (k - 1)
  /\ replay_end_index # None => next_journal_index = journal_size + Len(NewEntries)

\* C13 witness: entries emitted after a replayed journal, over two buffers.
C13_Witness ==
  /\ journal_size > 0
  /\ body_reads = 2
  /\ Len(NewEntries) >= 3

\* C14: once a Suspension message is decoded the task has ended with
\* Suspended carrying exactly the entry indexes of the message; the frames
\* after it produced no NewEntry and the decoding step was the last step.
C14_SuspensionIsTerminal ==
  (FirstStop # 0 /\ inbound[FirstStop].type = "Suspension") =>
     /\ EndedOnBuffer
     /\ LastOutput.type = "Suspended"
     /\ LastOutput.entries = {inbound[FirstStop].entry_indexes[i] :
                                i \in 1 .. Len(inbound[FirstStop].entry_indexes)}
     /\ Len(NewEntries) = FirstStop - 1
     /\ Len(invoker_tx) = FirstStop

\* C14 witness: a Suspension with a repeated index, after an Entry and
\* followed by an Entry in the same buffer.
C14_Witness ==
  /\ Len(inbound) = 3
  /\ inbound[1].type = "Entry"
  /\ inbound[2] = Message("Suspension", <<1, 3, 1>>)
  /\ inbound[3].type = "Entry"
  /\ task_pc = "done"

\* C15: an inbound Start or Completion ends the task with
\* Failed(UnexpectedMessage) naming its type; the entries before it were
\* emitted and nothing is emitted after it.
C15_UnexpectedMessage ==
  (FirstStop # 0 /\ inbound[FirstStop].type \in {"Start", "Completion"}) =>
     /\ EndedOnBuffer
     /\ LastOutput.type = "Failed"
     /\ LastOutput.error.kind = "UnexpectedMessage"
     /\ LastOutput.error.name = inbound[FirstStop].type
     /\ Len(NewEntries) = FirstStop - 1
     /\ Len(invoker_tx) = FirstStop

\* C15 witness: a Completion after an Entry, followed by another Entry.
C15_Witness ==
  /\ Len(inbound) = 3
  /\ inbound[1].type = "Entry"
  /\ inbound[2].type = "Completion"
  /\ inbound[3].type = "Entry"
  /\ task_pc = "done"

\* C16: a transport error of the response future or of the response body
\* (bidi loop, response loop) ends the task as Closed when its h2 reason is
\* NO_ERROR and as Failed(Network) otherwise.
C16_TransportErrorMapping ==
  last_event.kind = "hyper_err" =>
     /\ last_event.phase \in {"replay", "bidi", "response"}
     /\ task_pc = "done"
     /\ IF last_event.err[1].h2 = Some("NO_ERROR")
        THEN LastOutput.type = "Closed"
        ELSE LastOutput.type = "Failed" /\ LastOutput.error.kind = "Network"

\* C16 witness: a graceful close while the response head is awaited.
C16_Witness ==
  /\ last_event.kind = "hyper_err"
  /\ last_event.phase = "replay"
  /\ last_event.err[1].h2 = Some("NO_ERROR")
  /\ LastOutput.type = "Closed"

\* C17: the end of the response body, in the bidi loop or in the response
\* loop, ends the task as Closed.
C17_EndOfBodyIsClosed ==
  last_event.kind = "end_of_body" =>
     /\ last_event.phase \in {"bidi", "response"}
     /\ task_pc = "done"
     /\ LastOutput.type = "Closed"

\* C17 witness: the body ends in the bidi loop after entries were emitted.
C17_Witness ==
  /\ last_event.kind = "end_of_body"
  /\ last_event.phase = "bidi"
  /\ Len(NewEntries) > 0
  /\ task_pc = "done"

\* C18: after the invoker closed the completion channel the task runs the
\* response loop: it has not ended by the closing, forwards no completion it
\* did not receive, emits the inbound entries and ends only by an item of
\* the response body.
C18_ChannelClosedKeepsDraining ==
  invoker_rx = Some("closed") =>
     /\ task_pc \in {"response", "done"}
     /\ task_pc = "done" =>
          /\ last_event.phase = "response"
          /\ last_event.kind \in {"buffer", "hyper_err", "end_of_body"}
     /\ Len(SelectSeq(http_stream_tx.sent, LAMBDA m : m.type = "Completion")) <= completions
     /\ Len(NewEntries) = LeadingEntries

\* C18 witness: entries emitted and a Suspension decoded after the channel
\* was closed.
C18_Witness ==
  /\ invoker_rx = Some("closed")
  /\ body_reads = 1
  /\ EndedOnBuffer
  /\ Len(NewEntries) > 0
  /\ LastOutput.type = "Suspended"

\* C19: a response head with a status that is not 2xx ends the task with
\* Failed(UnexpectedResponse(status)), whatever its content type; a 2xx head
\* whose content type is missing or not application/restate ends it with
\* Failed(UnexpectedContentType); any other head is accepted.  A task ended
\* by the head has processed no inbound frame.
C19_ResponseHeadValidation ==
  last_event.kind = "head" =>
     LET parts == last_event.parts[1]
     IN IF ~(parts.status \in 200 .. 299)
        THEN /\ task_pc = "done"
             /\ LastOutput.type = "Failed"
             /\ LastOutput.error.kind = "UnexpectedResponse"
             /\ LastOutput.error.status = parts.status
             /\ body_reads = 0
        ELSE IF parts.content_type # Some("application/restate")
        THEN /\ task_pc = "done"
             /\ LastOutput.type = "Failed"
             /\ LastOutput.error.kind = "UnexpectedContentType"
             /\ body_reads = 0
        ELSE /\ task_pc = "replay"
             /\ http_stream_rx_res

\* C19 witness: a 404 head with a wrong content type, while journal entries
\* are still to be written.
C19_Witness ==
  /\ last_event.kind = "head"
  /\ last_event.parts[1] = Parts(404, Some("application/json"))
  /\ journal_stream > 0
  /\ next_journal_index > 0
  /\ task_pc = "done"

\* The events of the response side: the head and the items of the body.
ResponseEvents == {"head", "hyper_err", "join_error", "buffer", "end_of_body"}

\* The events in which write sent a message or ignored a closed channel.
WriteEvents == {"start", "replay_entry", "completion"}

\* C30: a send that fails with is_closed() is ignored: the task goes on
\* without a terminal output, the replay still counts the entry and ends at
\* journal_size, and a task whose request channel was closed ends on an
\* event of the response side; a send that fails otherwise ends the task with
\* Failed(Network) of that error.
C30_ClosedSendIsIgnored ==
  /\ (last_event.kind \in WriteEvents /\ last_event.err # None)
       => /\ last_event.err[1].closed
          /\ http_stream_tx.closed
          /\ task_pc = last_event.phase \/ (last_event.phase = "start" /\ task_pc = "replay")
          /\ TerminalPositions = {}
  /\ last_event.kind = "write_error"
       => /\ last_event.err # None
          /\ ~last_event.err[1].closed
          /\ task_pc = "done"
          /\ LastOutput = TaskOutput(Failed(Network(last_event.err[1])))
  /\ task_pc = "replay" => next_journal_index + journal_stream = journal_size
  /\ (http_stream_tx.closed /\ replay_end_index # None)
       => replay_end_index[1] = journal_size
  /\ (http_stream_tx.closed /\ task_pc = "done")
       => last_event.kind \in ResponseEvents

\* C30 witness: the endpoint closed the request channel during the replay,
\* the remaining entries and a completion were still consumed, and the task
\* ended with the suspension the response stream delivered.
C30_Witness ==
  /\ http_stream_tx.closed
  /\ Len(http_stream_tx.sent) < 1 + journal_size
  /\ journal_size = MaxJournal
  /\ completions > 0
  /\ task_pc = "done"
  /\ LastOutput.type = "Suspended"

\* The messages of a task with a journal of `size` entries that received m
\* completions: Start, the entries in journal order, the completions in the
\* order received.
ExpectedWrites(size, m) ==
  << ProtocolMessage("Start", size) >>
    \o [k \in 1 .. size |-> ProtocolMessage("Entry", k - 1)]
    \o [k \in 1 .. m |-> ProtocolMessage("Completion", k)]

IsPrefix(a, b) == Len(a) <= Len(b) /\ a = SubSeq(b, 1, Len(a))

\* C31: the request body holds one Start message carrying journal_size, then
\* the replay entries in journal order, then the completions in the order
\* received, and nothing is left out while the endpoint accepts the
\* messages; a completion is taken only after the replay has ended with
\* every entry written and the response head validated, and never by a task
\* without a completions receiver.
C31_RequestBodyOrder ==
  /\ IsPrefix(http_stream_tx.sent, ExpectedWrites(journal_size, completions))
  /\ (/\ ~http_stream_tx.closed
      /\ task_pc # "new"
      /\ last_event.kind \notin {"write_error", "journal_error"})
       => http_stream_tx.sent =
            SubSeq(ExpectedWrites(journal_size, 0), 1, 1 + journal_size - journal_stream)
              \o [j \in 1 .. completions |-> ProtocolMessage("Completion", j)]
  /\ completions > 0
       => /\ replay_end_index = Some(journal_size)
          /\ journal_stream = 0
          /\ http_stream_rx_res
          /\ invoker_rx # None
  /\ invoker_rx = None
       => \A i \in 1 .. Len(http_stream_tx.sent) :
            http_stream_tx.sent[i].type # "Completion"

\* C31 witness: the endpoint accepted Start, every entry of a journal of
\* MaxJournal entries and MaxCompletions completions.
C31_Witness ==
  /\ journal_size = MaxJournal
  /\ completions = MaxCompletions
  /\ http_stream_tx.sent = ExpectedWrites(MaxJournal, MaxCompletions)
  /\ ~http_stream_tx.closed

\* ========================================================================
\* The replay loop with its awaits apart (specification ReplaySpec)
\* ========================================================================
\* The task is at the start of wait_response_and_replay_end_loop: write_start
\* has put the Start message into the request body channel, the request is
\* spawned, nothing has been sent to the endpoint yet.
ReplayInit ==
  /\ ProcessorBuilt
  /\ task_pc = "replay"
  /\ journal_size \in 0 .. MaxJournal
  /\ journal_stream = JournalStreamLen(journal_size)
  /\ next_journal_index = 0
  /\ invoker_rx \in {None, Some("open")}
  /\ invoker_tx = << >>
  /\ http_stream_tx = [sent |-> << ProtocolMessage("Start", journal_size) >>,
                       closed |-> FALSE]
  /\ http_stream_rx_res = FALSE
  /\ completions = 0
  /\ body_reads = 0
  /\ inbound = << >>
  /\ last_event = Event("start", "start", None, None)
  /\ replay_end_index = None
  /\ replay_pc = "loop"
  /\ req_fut = "spawned"
  /\ endpoint_read = 0
  /\ NoQuery

\* Number of messages the request body channel holds.
Buffered == Len(http_stream_tx.sent) - endpoint_read

\* Sender::send_data resolves with Ok only when the channel has room.
HasRoom == Buffered < BodyCapacity

\* Variant: the request future is a select arm and makes progress only while
\* the loop is at the select.
req_fut_polled_by_loop(at) == at = "loop"

\* tokio::task::spawn(client.request(req)): the runtime drives the request,
\* wherever the loop is.
req_fut_driven(at) == TRUE

\* What the task variables of a step of the replay loop do when the step
\* ends with `result`.
ReplayProceed(result) ==
  /\ Proceed(result, "replay", invoker_tx)
  /\ replay_pc' = IF result.state = "Continue" THEN "loop" ELSE "ended"

\* Arm "Some(je) = journal_stream.next()": the entry is taken from the stream
\* and its write starts.
TakeEntry ==
  /\ replay_pc = "loop"
  /\ journal_stream > 0
  /\ journal_stream' = journal_stream - 1
  /\ replay_pc' = "writing"
  /\ last_event' = Event("journal_entry", "replay", None, None)
  /\ UNCHANGED << task_pc, journal_size, next_journal_index, invoker_rx, invoker_tx,
                  http_stream_tx, http_stream_rx_res, completions, body_reads,
                  inbound, replay_end_index, req_fut, endpoint_read >>
  /\ UNCHANGED << vars, ingress_vars >>

\* The write of the entry ends with `send_res`; after an Ok or a closed
\* channel the entry is counted.
EntryWritten(send_res) ==
  LET w == write(http_stream_tx,
                 ProtocolMessage("Entry", JournalStreamLen(journal_size) - journal_stream - 1),
                 send_res)
  IN /\ http_stream_tx' = w.tx
     /\ ReplayProceed(w.result)
     /\ next_journal_index' = IF w.result.state = "Continue"
                              THEN next_journal_index + 1 ELSE next_journal_index
     /\ last_event' = Event(IF w.result.state = "Continue" THEN "replay_entry"
                            ELSE "write_error", "replay", send_res, None)
     /\ UNCHANGED << journal_size, journal_stream, invoker_rx, http_stream_rx_res,
                     completions, body_reads, inbound, replay_end_index, req_fut,
                     endpoint_read >>
     /\ UNCHANGED << vars, ingress_vars >>

\* send_data resolves with Ok: the channel had room for the entry.
SendAccepted ==
  /\ replay_pc = "writing"
  /\ ~http_stream_tx.closed
  /\ HasRoom
  /\ EntryWritten(None)

\* send_data resolves with a closed error: the endpoint closed the channel.
SendClosed ==
  /\ replay_pc = "writing"
  /\ http_stream_tx.closed
  /\ EntryWritten(Some(HyperError(None, TRUE)))

\* send_data resolves with another error.
SendFails ==
  /\ replay_pc = "writing"
  /\ ~http_stream_tx.closed
  /\ \E e \in {x \in WriteErrors : ~x.closed} : EntryWritten(Some(e))

\* The request in flight hands the next message of the channel to the
\* endpoint, which consumes it.
RequestDrive ==
  /\ replay_pc \in {"loop", "writing"}
  /\ req_fut_driven(replay_pc)
  /\ endpoint_read < Len(http_stream_tx.sent)
  /\ endpoint_read' = endpoint_read + 1
  /\ UNCHANGED << task_pc, journal_size, journal_stream, next_journal_index,
                  invoker_rx, invoker_tx, http_stream_tx, http_stream_rx_res,
                  completions, body_reads, inbound, last_event, replay_end_index,
                  replay_pc, req_fut >>
  /\ UNCHANGED << vars, ingress_vars >>

\* The request future resolves: the endpoint sent its response head, or the
\* request failed.
ResponseArrives ==
  /\ replay_pc \in {"loop", "writing"}
  /\ req_fut_driven(replay_pc)
  /\ req_fut = "spawned"
  /\ req_fut' = "ready"
  /\ UNCHANGED << task_pc, journal_size, journal_stream, next_journal_index,
                  invoker_rx, invoker_tx, http_stream_tx, http_stream_rx_res,
                  completions, body_reads, inbound, last_event, replay_end_index,
                  replay_pc, endpoint_read >>
  /\ UNCHANGED << vars, ingress_vars >>

\* Arm "response_res = &mut req_fut, if http_stream_rx_res.is_none()".
TakeResponse ==
  /\ replay_pc = "loop"
  /\ req_fut = "ready"
  /\ ~http_stream_rx_res
  /\ \E response_res \in ResponseResults :
       LET result == CASE response_res.kind = "join_error" -> Failed(UnexpectedJoinError)
                       [] response_res.kind = "hyper_err" ->
                            From_hyper_Error(response_res.err[1])
                       [] OTHER -> validate_response(response_res.parts[1])
       IN /\ ReplayProceed(result)
          /\ http_stream_rx_res' = (result.state = "Continue")
          /\ last_event' = Event(response_res.kind, "replay", response_res.err,
                                 response_res.parts)
  /\ req_fut' = "taken"
  /\ UNCHANGED << journal_size, journal_stream, next_journal_index, invoker_rx,
                  http_stream_tx, completions, body_reads, inbound, replay_end_index,
                  endpoint_read >>
  /\ UNCHANGED << vars, ingress_vars >>

\* "else => break": the loop returns the response body and run_internal goes
\* on with the next loop.
ReplayBreak ==
  /\ replay_pc = "loop"
  /\ ReplayFinished(http_stream_rx_res, journal_stream)
  /\ replay_pc' = "ended"
  /\ replay_end_index' = Some(next_journal_index)
  /\ task_pc' = IF invoker_rx # None THEN "bidi" ELSE "response"
  /\ last_event' = Event("replay_end", "replay", None, None)
  /\ UNCHANGED << journal_size, journal_stream, next_journal_index, invoker_rx,
                  invoker_tx, http_stream_tx, http_stream_rx_res, completions,
                  body_reads, inbound, req_fut, endpoint_read >>
  /\ UNCHANGED << vars, ingress_vars >>

\* The endpoint closes the request channel (it is suspending).
EndpointCloses ==
  /\ replay_pc \in {"loop", "writing"}
  /\ ~http_stream_tx.closed
  /\ http_stream_tx' = [http_stream_tx EXCEPT !.closed = TRUE]
  /\ UNCHANGED << task_pc, journal_size, journal_stream, next_journal_index,
                  invoker_rx, invoker_tx, http_stream_rx_res, completions,
                  body_reads, inbound, last_event, replay_end_index, replay_vars >>
  /\ UNCHANGED << vars, ingress_vars >>

ReplayNext ==
  \/ TakeEntry
  \/ SendAccepted
  \/ SendClosed
  \/ SendFails
  \/ RequestDrive
  \/ ResponseArrives
  \/ TakeResponse
  \/ ReplayBreak
  \/ EndpointCloses

\* The runtime goes on polling the task and the spawned request; the
\* endpoint goes on consuming the request body and sends its response head.
ReplayFairness ==
  /\ WF_task_vars(TakeEntry)
  /\ WF_task_vars(SendAccepted)
  /\ WF_task_vars(SendClosed)
  /\ WF_task_vars(TakeResponse)
  /\ WF_task_vars(ReplayBreak)
  /\ WF_task_vars(RequestDrive)
  /\ WF_task_vars(ResponseArrives)

ReplaySpec == ReplayInit /\ [][ReplayNext]_task_vars /\ ReplayFairness

\* Number of entries taken from the journal stream.
EntriesTaken == JournalStreamLen(journal_size) - journal_stream

\* The channel never holds more than its capacity, and an entry is taken from
\* the journal only after the write of the one before it has returned.
BackPressure ==
  /\ Buffered \in 0 .. BodyCapacity
  /\ replay_pc = "writing" => EntriesTaken = next_journal_index + 1
  /\ replay_pc = "loop" => EntriesTaken = next_journal_index
  /\ replay_pc = "ended" => EntriesTaken - next_journal_index \in {0, 1}
  /\ ~http_stream_tx.closed
       => Len(http_stream_tx.sent) = 1 + next_journal_index

\* The replay loop has returned the response body or a terminal state.
ReplayEnded ==
  /\ replay_pc = "ended"
  /\ \/ task_pc \in {"bidi", "response"} /\ http_stream_rx_res /\ journal_stream = 0
     \/ task_pc = "done" /\ LastOutput.type \in TerminalTypes

\* C32: the write of an entry waits for room in the request body channel and
\* entry k+1 is not taken from the journal before the write of entry k has
\* returned; with the request driven by the runtime, an endpoint that goes on
\* consuming the body and sends its response head, the replay loop eventually
\* returns, with the response body or with a terminal state.
C32_ReplayBackPressure == [](BackPressure) /\ <>ReplayEnded

\* C32 witness: the write of the first entry waits, the channel is full with
\* the Start message and the response head is not there yet.
C32_Witness ==
  /\ replay_pc = "writing"
  /\ ~HasRoom
  /\ ~http_stream_tx.closed
  /\ req_fut = "spawned"
  /\ endpoint_read = 0
  /\ journal_stream = MaxJournal - 1

\* ========================================================================
\* get_output of the ingress (worker/src/ingress_integration.rs)
\* ========================================================================
\* Invocation ids: one an invocation was stored under, and the deterministic
\* id of a query (InvocationQuery::to_invocation_id).
InvocationIds == {"i1", "det"}
to_invocation_id(q) == "det"

\* InvocationQuery
InvocationQueries ==
       {[kind |-> "Invocation", id |-> i] : i \in InvocationIds}
  \cup {[kind |-> "Workflow", id |-> "-"], [kind |-> "IdempotencyId", id |-> "-"]}

\* InvocationTargetType of the target of an invocation
InvocationTargetTypes ==
  {"Service", "VirtualObject", "Workflow(Workflow)", "Workflow(Shared)"}

\* ResponseResult of a completed invocation
CompletedResponseResults == {[kind |-> "Success", value |-> "res"],
                              [kind |-> "Failure", value |-> "err"]}

\* InvocationStatus: Free, or an invocation with its idempotency key and
\* target, and with its response when it is Completed.
InvocationStatus(kind, key, target, response) ==
  [kind |-> kind, idempotency_key |-> key, invocation_target |-> target,
   response_result |-> response]
Free == InvocationStatus("Free", None, None, None)
InvocationStatuses ==
       {Free}
  \cup {InvocationStatus(k, key, Some(t), None) :
          k \in {"Inboxed", "Invoked", "Suspended"},
          key \in {None, Some("key")}, t \in InvocationTargetTypes}
  \cup {InvocationStatus("Completed", key, Some(t), Some(r)) :
          key \in {None, Some("key")}, t \in InvocationTargetTypes,
          r \in CompletedResponseResults}

\* VirtualObjectStatus of the service of a Workflow query
VirtualObjectStatuses ==
  {[kind |-> "Unlocked", iid |-> "-"]} \cup {[kind |-> "Locked", iid |-> i] : i \in InvocationIds}

\* The tables get_output reads.  An invocation is stored under at most one
\* of the ids.
PartitionStorages ==
  {[virtual_object_status |-> v, idempotency_metadata |-> m, invocation_status |-> t] :
     v \in VirtualObjectStatuses,
     m \in {None} \cup {Some(i) : i \in InvocationIds},
     t \in {f \in [InvocationIds -> InvocationStatuses] :
              \E i \in InvocationIds : f[i] = Free}}

\* GetOutputResult, and the error of a storage access
GetOutputResult(kind, response, invocation_id) ==
  [kind |-> kind, response |-> response, invocation_id |-> invocation_id]
NotFound == GetOutputResult("NotFound", None, None)
NotSupported == GetOutputResult("NotSupported", None, None)
NotReady == GetOutputResult("NotReady", None, None)
Ready(response, invocation_id) == GetOutputResult("Ready", Some(response), invocation_id)
StorageErr == GetOutputResult("Err", None, None)

\* IngressResponseResult: a success goes with the target of the invocation.
IngressResponseResult(target, response_result) ==
  IF response_result.kind = "Success"
  THEN [kind |-> "Success", target |-> Some(target), value |-> response_result.value]
  ELSE [kind |-> "Failure", target |-> None, value |-> response_result.value]

\* The invocation id the query resolves to.
resolve_invocation_id(q, storage) ==
  CASE q.kind = "Invocation" -> q.id
    [] q.kind = "Workflow" ->
         IF storage.virtual_object_status.kind = "Locked"
         THEN storage.virtual_object_status.iid
         ELSE to_invocation_id(q)
    [] OTHER ->
         IF storage.idempotency_metadata # None
         THEN storage.idempotency_metadata[1]
         ELSE to_invocation_id(q)

\* Variant: a completed invocation is looked at before the kind of target.
get_output_completed_first(q, storage) ==
  LET invocation_id == resolve_invocation_id(q, storage)
      is == storage.invocation_status[invocation_id]
  IN IF is.kind = "Free" THEN NotFound
     ELSE IF is.kind = "Completed"
     THEN Ready(IngressResponseResult(is.invocation_target[1], is.response_result[1]),
                Some(invocation_id))
     ELSE IF /\ is.idempotency_key = None
             /\ is.invocation_target # Some("Workflow(Workflow)")
     THEN NotSupported
     ELSE NotReady

\* get_output, the storage accesses having succeeded
get_output(q, storage) ==
  LET invocation_id == resolve_invocation_id(q, storage)
      is == storage.invocation_status[invocation_id]
  IN IF is.kind = "Free" THEN NotFound
     ELSE IF /\ is.idempotency_key = None
             /\ is.invocation_target # Some("Workflow(Workflow)")
     THEN NotSupported
     ELSE IF is.kind = "Completed"
     THEN Ready(IngressResponseResult(is.invocation_target[1], is.response_result[1]),
                Some(invocation_id))
     ELSE NotReady

\* A call of get_output is about to be made.
OutputInit ==
  /\ ProcessorBuilt
  /\ NoTask
  /\ query \in {Some(q) : q \in InvocationQueries}
  /\ partition_storage \in {Some(st) : st \in PartitionStorages}
  /\ output = None

\* The call: an access to the partition store may fail, otherwise the
\* result is decided on the status of the invocation.
GetOutput ==
  /\ query # None
  /\ output = None
  /\ \E failed \in BOOLEAN :
       output' = Some(IF failed THEN StorageErr
                      ELSE get_output(query[1], partition_storage[1]))
  /\ UNCHANGED << query, partition_storage >>
  /\ UNCHANGED << vars, task_vars >>

OutputNext == GetOutput

OutputSpec == OutputInit /\ [][OutputNext]_ingress_vars

\* ------------------------------------------------------------------------
\* Properties of get_output (specification OutputSpec)
\* ------------------------------------------------------------------------
\* The id the query of the call stands for, and the status stored for it.
QueriedId ==
  IF query[1].kind = "Invocation" THEN query[1].id
  ELSE IF query[1].kind = "Workflow" /\ partition_storage[1].virtual_object_status.kind = "Locked"
  THEN partition_storage[1].virtual_object_status.iid
  ELSE IF query[1].kind = "IdempotencyId" /\ partition_storage[1].idempotency_metadata # None
  THEN partition_storage[1].idempotency_metadata[1]
  ELSE "det"
QueriedStatus == partition_storage[1].invocation_status[QueriedId]

\* The invocation has no idempotency key and is not a workflow run.
OutputNotKept(is) ==
  /\ is.idempotency_key = None
  /\ \/ is.invocation_target = None
     \/ is.invocation_target[1] # "Workflow(Workflow)"

\* C34: get_output answers NotFound exactly for a Free status; NotSupported
\* exactly for a status that is not Free, has no idempotency key and whose
\* target is not a workflow handler of type Workflow, Completed or not;
\* Ready exactly for the remaining Completed statuses, with the stored
\* success or failure and the id of the invocation; NotReady exactly for the
\* remaining statuses.
C34_GetOutputOrder ==
  (output # None /\ output[1].kind # "Err") =>
    LET is == QueriedStatus
        res == output[1]
    IN /\ res.kind = "NotFound" <=> is.kind = "Free"
       /\ res.kind = "NotSupported" <=> (is.kind # "Free" /\ OutputNotKept(is))
       /\ res.kind = "Ready"
            <=> (is.kind = "Completed" /\ ~OutputNotKept(is))
       /\ res.kind = "NotReady"
            <=> (is.kind \in {"Inboxed", "Invoked", "Suspended"} /\ ~OutputNotKept(is))
       /\ res.kind = "Ready"
            => /\ res.invocation_id = Some(QueriedId)
               /\ res.response[1].kind = is.response_result[1].kind
               /\ res.response[1].value = is.response_result[1].value
               /\ res.response[1].kind = "Success"
                    => res.response[1].target = is.invocation_target
       /\ res.kind # "Ready" => res.response = None /\ res.invocation_id = None

\* C34 witness: NotSupported for a completed invocation of a service without
\* idempotency key, asked for by its invocation id.
C34_Witness ==
  /\ output = Some(NotSupported)
  /\ query = Some([kind |-> "Invocation", id |-> "i1"])
  /\ QueriedStatus.kind = "Completed"
  /\ QueriedStatus.invocation_target = Some("Service")
  /\ QueriedStatus.response_result[1].kind = "Success"

====
